---- MODULE Spec2Model ----
(***************************************************************************)
(* A model of the wult wake-latency measurement engine:                    *)
(*   - the control surface (drivers/idle/wult/main.c, uapi.c),             *)
(*   - the armer kernel thread (main.c),                                   *)
(*   - the tracer and its idle / interrupt hot paths (tracer.c),           *)
(*   - the delayed-event devices (wult_hrtimer.c, wult_timer.c).           *)
(*                                                                         *)
(* Time is the device clock in nanoseconds.  It only moves to the instants *)
(* that something in the model can tell apart: the expiry of the armed     *)
(* timer, the instant after it, the TSC deadline latched before idle and   *)
(* the end of the armer's wait.                                            *)
(***************************************************************************)
EXTENDS Integers, FiniteSets, Sequences, TLC

\* ------------------------------------------------------------------ bounds

\* How many events the armer may arm in one run of the model.
MaxEvents == 2
\* How many enable / disable calls the control thread may make.
MaxCtlOps == 2
\* How many configuration writes the writer thread may make.
MaxWrites == 1
\* How many idle entries the measured CPU may make.
MaxIdle == 2
\* The last instant of the device clock, below 2^31.
MaxTime == 2000000000
\* How many wult_register() calls the device drivers may make.
MaxRegs == 3
\* The widest launch distance range of which the armer draws every value.
MaxPickSpan == 4

\* --------------------------------------------------------- program constants

DEFAULT_LDIST_FROM == 1000
DEFAULT_LDIST_TO == 4000000
\* The measured CPU: the 'cpunum' module parameter, CPU0 by default.
cpunum == 0
\* LDIST_MAX of the timer based devices.
LDIST_MAX == 10000000
\* The cycle counters and their deltas are u64 in the code; the model keeps them
\* 16 bits wide.
CounterModulus == 65536
\* What rdtsc_ordered() returns before idle.
TscBefore == 2

\* The delayed event devices: the bounds each one announces in its struct
\* wult_device_info, and the kind of its operations.
\*   hrtimer : wult_hrtimer.c, a pinned hrtimer; launch time recorded when arming.
\*   timer   : wult_timer.c, a pinned hrtimer; launch time is the TSC deadline
\*             latched before idle.
\*   igb     : wult_igb.c, the I210 NIC; its interrupt may be taken on any CPU and
\*             its handler may report an error.
hrtimer_dev == [kind |-> "hrtimer", ldist_min |-> 1, ldist_max |-> LDIST_MAX, ldist_gran |-> 1]
timer_dev == [kind |-> "timer", ldist_min |-> 1, ldist_max |-> LDIST_MAX, ldist_gran |-> 1]
igb_dev == [kind |-> "igb", ldist_min |-> 1, ldist_max |-> LDIST_MAX, ldist_gran |-> 1]
\* wult_hrtimer.c where hrtimer_resolution is 3 ns.
coarse_dev == [kind |-> "hrtimer", ldist_min |-> 1, ldist_max |-> LDIST_MAX, ldist_gran |-> 3]
\* A device whose whole range lies below the default launch distance range.
short_dev == [kind |-> "hrtimer", ldist_min |-> 1, ldist_max |-> 500, ldist_gran |-> 1]

\* Devices whose range leaves init_wdi() a few nanoseconds wide: [1000, 1003]
\* with a granularity of 3 and of 1, and the single value 1000 with 3.
narrow_dev == [kind |-> "hrtimer", ldist_min |-> 1, ldist_max |-> 1003, ldist_gran |-> 3]
narrow1_dev == [kind |-> "hrtimer", ldist_min |-> 1, ldist_max |-> 1003, ldist_gran |-> 1]
single_dev == [kind |-> "hrtimer", ldist_min |-> 1, ldist_max |-> 1000, ldist_gran |-> 3]

Devices == {hrtimer_dev, timer_dev, igb_dev}
PickDevices == {narrow_dev, narrow1_dev, single_dev, short_dev}
CfgDevices == {igb_dev, coarse_dev, short_dev}

\* The values user space writes to ldist_from_nsec and ldist_to_nsec.
WriteVals == {0, 300, 2000, LDIST_MAX + 1}

Max(a, b) == IF a >= b THEN a ELSE b
Min(a, b) == IF a <= b THEN a ELSE b

VARIABLES
    wdi,              \* the registered struct wult_device_info
    ldist_from,       \* wi->ldist_from
    ldist_to,         \* wi->ldist_to
    early_intr,       \* wi->early_intr
    enabled,          \* wi->enabled
    enable_mutex,     \* holder of wi->enable_mutex: "free", "ctl" or "armer"
    events_armed,     \* wi->events_armed
    events_happened,  \* wi->events_happened
    event_cpu,        \* wi->event_cpu
    irq_err,          \* wi->irq_err
    ti,               \* wi->ti, the tracer's datapoint
    tp_registered,    \* the cpu_idle tracepoint probe is registered
    sink_on,          \* the wult_cpu_idle synthetic event is enabled
    dev,              \* the delayed event device's private state
    now,              \* the device clock
    armer,            \* the armer thread: its position and locals
    ctl,              \* the thread writing the 'enabled' file: its position, the
                      \* calls made, the last return value, and whether the last
                      \* call found the engine already in the state asked for
    wr,               \* the thread writing the configuration files
    rec,              \* the last record sent to user space
    nidle,            \* idle entries so far
    in_idle,          \* the measured CPU is between idle entry and idle exit
    reg,              \* the registration of the device: wi->dev_mutex,
                      \* wi->initialized, wi->init_err, what has been set up, and
                      \* the callers of wult_register()
    csinfo,           \* wi->ti.csinfo: the table of C-states and the snapshots of
                      \* the TSC, of MPERF and of the residency counters
    bpf,              \* the globals of an eBPF helper program (hrt-bpf.c,
                      \* bpf-hrt.c or tdt-bpf.c), its timer, its ring buffer
                      \* and the measured CPU it traces
    pbe               \* the globals of the pbe driver and its worker thread

vars == << wdi, ldist_from, ldist_to, early_intr, enabled, enable_mutex,
           events_armed, events_happened, event_cpu, irq_err, ti,
           tp_registered, sink_on, dev, now, armer, ctl, wr, rec, nidle, in_idle,
           reg, csinfo, bpf, pbe >>

cfg_vars == << ldist_from, ldist_to, early_intr >>
idle_vars == << nidle, in_idle >>
cnt_vars == << events_armed, events_happened, event_cpu, irq_err >>
trc_vars == << ti, tp_registered, sink_on >>

\* ------------------------------------------------------------------- Init

\* init_wdi(): the default launch distance range, clamped to the device's.
init_wdi_from(d) == Max(d.ldist_min, DEFAULT_LDIST_FROM)
init_wdi_to(d) == Min(d.ldist_max, DEFAULT_LDIST_TO)

\* The tracer's datapoint as kzalloc() leaves it.
ti_zero ==
    [ tbi |-> 0, tai |-> 0, tintr |-> 0, ldist |-> 0,
      \* csinfo.tsc1, csinfo.tsc2 and their delta csinfo.tsc
      tsc1 |-> 0, tsc2 |-> 0, tsc |-> 0,
      bi_finished |-> FALSE, ai_finished |-> FALSE, intr_finished |-> FALSE,
      got_dp |-> FALSE, discard_dp |-> FALSE,
      \* not a field of the code: what event_has_happened() returned when the
      \* data after idle were last read
      event_happened |-> FALSE,
      \* not fields of the code: the position of the CPU inside the idle exit
      \* hook, what irqs_disabled() returns there, whether after_idle() has
      \* collected the data of this idle episode with interrupts enabled, and
      \* whether the interrupt handler has collected them
      ai_pc |-> "none", ai_irqs_off |-> FALSE, ai_irqs_on |-> FALSE,
      intr_first |-> FALSE ]

dev_zero ==
    [ armed |-> FALSE, expiry |-> 0, ltime |-> 0, deadline_before |-> 0,
      route |-> "target" ]

rec_none ==
    [ valid |-> FALSE, tbi |-> 0, ltime |-> 0, tai |-> 0, tintr |-> 0, ldist |-> 0,
      TotCyc |-> 0, tsc1 |-> 0, tsc2 |-> 0, armed_at |-> 0,
      event_happened |-> FALSE, ai_irqs_on |-> FALSE, intr_first |-> FALSE, events_armed |-> 0, events_happened |-> 0,
      enabled |-> FALSE, sink_on |-> FALSE, mutex |-> "free" ]

\* No armer thread: its position and locals, why it took its error path, the
\* events it has armed; 'stop' is the kthread's should-stop flag, 'task' the
\* state of the task ("running" or "interruptible") and 'exits' the calls of the
\* device's exit operation the thread has made.
armer_zero ==
    [ pc |-> "none", events_happened |-> 0, deadline |-> 0, why |-> "none",
      narm |-> 0, stop |-> FALSE, task |-> "running", exits |-> 0,
      \* 'err' of armer_kthread() between wait_event_timeout() and check_event():
      \* 0 after a timeout, 1 otherwise
      err |-> 0 ]

\* wi->wdi == NULL
no_dev == [kind |-> "none", ldist_min |-> 0, ldist_max |-> 0, ldist_gran |-> 0]

\* The device drivers that call wult_register().
Registrars == {1, 2}

\* A caller of wult_register(): its position, its device, the last return value.
registrar_zero == [pc |-> "idle", dev |-> no_dev, ret |-> "none"]

\* The registration state as wult_init() leaves it: kzalloc() and mutex_init().
\* 'dev_mutex' is the holder of wi->dev_mutex, 0 when free. 'tracer', 'dev_inited'
\* and 'uapi' tell that wult_tracer_init(), the device's init operation and
\* wult_uapi_device_register() have been done and not undone.
reg_zero ==
    [ dev_mutex |-> 0, initialized |-> FALSE, init_err |-> FALSE,
      tracer |-> FALSE, dev_inited |-> FALSE, uapi |-> FALSE, n |-> 0,
      thr |-> [t \in Registrars |-> registrar_zero] ]

\* The registration state after the first driver's wult_register() returned 0.
reg_registered(d) ==
    [ reg_zero EXCEPT !.initialized = TRUE, !.tracer = TRUE, !.dev_inited = TRUE,
                      !.uapi = TRUE, !.n = 1,
                      !.thr[1] = [pc |-> "registered", dev |-> d, ret |-> "ok"] ]

\* An entry of the table of C-states: 'msr' tells that the entry has the address
\* of a residency counter, 'cyc1' and 'cyc2' are its snapshots and 'cyc' their
\* delta.
cstate_info(name, core) ==
    [ name |-> name, msr |-> TRUE, core |-> core, absent |-> FALSE,
      cyc1 |-> 0, cyc2 |-> 0, cyc |-> 0 ]

\* intel_cstates[]: CC1 first, two more core C-states and a package C-state of
\* the eleven entries of the table.
intel_cstates ==
    << cstate_info("CC1", TRUE), cstate_info("CC3", TRUE),
       cstate_info("CC6", TRUE), cstate_info("PC2", FALSE) >>

\* wi->ti.csinfo as kzalloc() leaves it. 'pc' is the next of the operations of
\* cstates.c to be applied to it; the engine's specifications follow the TSC
\* snapshots in 'ti' and leave the other counters alone. 'reads' is not a field
\* of the code: the counters in the order the last snapshot read them.
csinfo_zero ==
    [ pc |-> "none", cstates |-> << >>,
      tsc1 |-> 0, tsc2 |-> 0, tsc |-> 0, mperf1 |-> 0, mperf2 |-> 0, mperf |-> 0,
      reads |-> << >> ]

\* bpf_event as the eBPF program is loaded: 'tbi', 'tai' and 'tintr' are the
\* time before idle, the time after idle and the time of the interrupt ('bic',
\* 'aic' and 'intrc' in tdt-bpf.c, in TSC cycles), 'ltime' the launch time the
\* event records ('ltimec' in tdt-bpf.c).
bpf_event_zero == [ tbi |-> 0, tai |-> 0, tintr |-> 0, ltime |-> 0 ]

\* The globals of an eBPF helper before its setup program has run. 'kind' says
\* which program it is. 'tmr' is the bpf_timer, 'cb' the position of its
\* callback and the CPU the callback runs on, 'now' the clock, 'idle' whether
\* the measured CPU is idle, 'rb' the records in the ring buffer that user
\* space has not read. These are not fields of the code: 'sub' and 'nsub' are
\* the last DATA event submitted and their count, 'last' what the send_event()
\* of the last step did, 'lost' the datapoint of the last failed reservation,
\* 'resub' that this datapoint was submitted afterwards, 'modzero' that
\* kick_timer() took a remainder by zero, 'restart' that kick_timer() started
\* the timer while a timer it had started was queued ('tmr.probe' marks the
\* timer hrt_bpf_start_timer() starts to probe for BPF_F_TIMER_ABS), 'kick_tbi'
\* the bpf_event.tbi the last kick_timer() that started the timer found, 'wrong' that the callback of the timer ran
\* on another CPU than the measured one and no timer was started since,
\* 'sub_wrong' that an event was submitted while 'wrong' was set.
bpf_zero ==
    [ kind |-> "none", min_t |-> 0, max_t |-> 0, ldist |-> 0, ltime |-> 0,
      timer_armed |-> FALSE, restart_timer |-> FALSE, bpf_event |-> bpf_event_zero,
      tmr |-> [ on |-> FALSE, exp |-> 0, cpu |-> "target", probe |-> FALSE ],
      cb |-> [ pc |-> "none", cpu |-> "target" ],
      now |-> 1, idle |-> FALSE, rb |-> 0,
      sub |-> bpf_event_zero, nsub |-> 0, last |-> "none",
      lost |-> bpf_event_zero, resub |-> FALSE, modzero |-> FALSE,
      restart |-> FALSE, kick_tbi |-> 0, wrong |-> FALSE, sub_wrong |-> FALSE ]

\* LDIST_MIN, LDIST_DEFAULT and LDIST_MAX of pbe.c, in microseconds.
PBE_LDIST_MIN == 10
PBE_LDIST_DEFAULT == 100
PBE_LDIST_MAX == 1000000

\* The globals of pbe.c as the module is loaded: 'enable', 'thread' (NULL, an
\* ERR_PTR() value or a task), 'ldist' in microseconds. 'task' is the state of
\* the task 'thread' was created as, 'pc' the position of a write to the
\* enabled file, 'ret' what the last write returned, 'loaded' whether the module
\* is loaded. Not in the code: 'wakeups' counts pbe_wakeup() calls, 'bad_stop'
\* says that kthread_stop() was called for something that is no live thread.
pbe_zero ==
    [ enable |-> FALSE, thread |-> "NULL", task |-> "none",
      ldist |-> PBE_LDIST_DEFAULT,
      pc |-> "idle", ret |-> "none", loaded |-> TRUE, wakeups |-> 0,
      bad_stop |-> FALSE ]

\* The state after wult_init() and a successful wult_register(): the device is
\* recorded, the armer thread has initialised it and sleeps until enabled.
\* 'early' holds what the early_intr file may hold by then: false as kzalloc()
\* leaves it, or what user space wrote to the file while the engine was disabled.
\* With 'en' the state is the one a first wult_enable() returns 0 in, the armer
\* thread not having run yet.
InitEngineAt(devices, early, en) ==
    /\ wdi \in devices
    /\ ldist_from = init_wdi_from(wdi)
    /\ ldist_to = init_wdi_to(wdi)
    /\ early_intr \in early
    /\ enabled = en
    /\ enable_mutex = "free"
    /\ events_armed = 0
    /\ events_happened = 0
    /\ event_cpu = 0
    /\ irq_err = 0
    /\ ti = ti_zero
    /\ tp_registered = en
    /\ sink_on = en
    /\ dev = dev_zero
    /\ now = 0
    /\ armer = [armer_zero EXCEPT !.pc = "wait_enable"]
    /\ ctl = [pc |-> "idle", n |-> 0, ret |-> IF en THEN "ok" ELSE "none",
              noop |-> FALSE]
    /\ wr = [pc |-> "idle", file |-> "none", val |-> 0, ret |-> "none", n |-> 0,
             busy |-> FALSE]
    /\ rec = rec_none
    /\ nidle = 0
    /\ in_idle = FALSE
    /\ reg = reg_registered(wdi)
    /\ csinfo = csinfo_zero /\ bpf = bpf_zero /\ pbe = pbe_zero

\* The state after wult_init() and a successful wult_register(), the engine
\* disabled.
InitEngine(devices, early) == InitEngineAt(devices, early, FALSE)

\* The same with early_intr as kzalloc() leaves it.
InitWith(devices) == InitEngine(devices, {FALSE})

Init == InitWith(Devices)

\* ------------------------------------------------- delayed event devices

\* hrtimer_get_remaining(&wt->timer) <= 0
hrtimer_expired(d, t) == d.expiry <= t

\* rdmsrl(MSR_IA32_TSC_DEADLINE): the hardware zeroes the register when the
\* deadline is reached.
msr_tsc_deadline(d, t) == IF t >= d.deadline_before THEN 0 ELSE d.deadline_before

\* event_is_pending() without the test of the driver's own hrtimer.
event_is_pending_any_timer(d, t) ==
    IF msr_tsc_deadline(d, t) # 0 THEN FALSE
    ELSE IF d.deadline_before = 0 THEN FALSE
    ELSE ~(t <= d.deadline_before)

\* wult_timer.c event_is_pending()
event_is_pending(d, t) ==
    IF msr_tsc_deadline(d, t) # 0 THEN FALSE
    ELSE IF d.deadline_before = 0 THEN FALSE
    ELSE IF t <= d.deadline_before THEN FALSE
    ELSE hrtimer_expired(d, t)

\* wult_igb.c irq_is_pending(): the NIC raised its time sync interrupt and the
\* handler has not acknowledged it yet.
irq_is_pending(d, t) == d.armed /\ d.route # "lost" /\ d.expiry <= t

\* ops->event_has_happened()
event_has_happened(d, t) ==
    IF wdi.kind = "timer" THEN event_is_pending(d, t)
    ELSE IF wdi.kind = "igb" THEN irq_is_pending(d, t)
    ELSE hrtimer_expired(d, t)

\* What may become of an armed event: its interrupt is taken on the measured
\* CPU, on another CPU, or never comes. The hrtimers are pinned to the CPU of
\* the armer thread.
Routes == IF wdi.kind = "igb" THEN {"target", "other", "lost"} ELSE {"target"}

\* What the interrupt handler passes to wult_interrupt_finish():
\* irq_ack_and_check() of wult_igb.c, 0 for the timers.
IrqErrors == IF wdi.kind = "igb" THEN {0, 1} ELSE {0}

\* ops->get_launch_time()
get_launch_time(d) ==
    IF wdi.kind = "timer" THEN d.deadline_before ELSE d.ltime

\* ops->arm(): start the timer 'ldist' nanoseconds from now.
arm_event(d, ldist, route) ==
    [ d EXCEPT !.armed = TRUE, !.expiry = now + ldist, !.route = route,
               !.ltime = IF wdi.kind = "timer" THEN d.ltime ELSE now + ldist ]

\* The TSC deadlines the hardware may hold when the measured CPU goes idle: the
\* armed timer's, an earlier one of some other timer, or none.
ProgrammedDeadlines ==
    IF wdi.kind # "timer" THEN {0}
    ELSE IF dev.armed /\ now < dev.expiry
         THEN {dev.expiry} \cup (IF now + 1 < dev.expiry THEN {now + 1} ELSE {})
         ELSE {0, now + 1}

\* ops->get_time_before_idle(): wult_timer.c also latches the deadline.
get_time_before_idle(d, deadline) ==
    IF wdi.kind = "timer" THEN [d EXCEPT !.deadline_before = deadline] ELSE d

\* The armed event has expired and its interrupt is to be taken on the measured CPU.
IrqPending == dev.armed /\ dev.route = "target" /\ now >= dev.expiry

\* ----------------------------------------------------------- the tracer

\* wult_tracer_enable(): reset the datapoint flags, register the cpu_idle probe,
\* enable the synthetic event. 'fail' is the step that fails, if any. When the
\* event cannot be enabled the code calls tracepoint_synchronize_unregister(),
\* which leaves the probe registered.
tracer_enable_ti(t) ==
    [ t EXCEPT !.got_dp = FALSE, !.discard_dp = FALSE, !.ai_finished = FALSE,
               !.bi_finished = FALSE, !.intr_finished = FALSE ]
\* Registering a probe that is already registered fails (-EEXIST).
tracer_enable_failures ==
    IF tp_registered THEN {"probe"} ELSE {"none", "probe", "sink"}
tracer_enable_tp(fail) == IF fail = "probe" THEN tp_registered ELSE TRUE
tracer_enable_sink(fail) == IF fail = "none" THEN TRUE ELSE sink_on

\* ------------------------------------------------- wult_enable / wult_disable

\* wult_enable(): mutex_lock(&wi->enable_mutex). The 'enabled' file exists while
\* the user interface is registered.
wult_enable_lock ==
    /\ ctl.pc = "idle"
    /\ ctl.n < MaxCtlOps
    /\ reg.uapi
    /\ enable_mutex = "free"
    /\ enable_mutex' = "ctl"
    /\ ctl' = [ctl EXCEPT !.pc = "en_locked", !.n = @ + 1, !.ret = "none",
                          !.noop = FALSE]
    /\ UNCHANGED << wdi, cfg_vars, enabled, cnt_vars, trc_vars, dev, now, armer,
                    wr, rec, idle_vars,
                    reg, csinfo, bpf, pbe >>

\* wult_enable() without 'if (wi->enabled) goto out_unlock'.
wult_enable_body_no_test ==
    /\ ctl.pc = "en_locked"
    /\ \E fail \in tracer_enable_failures :
            /\ ti' = tracer_enable_ti(ti)
            /\ tp_registered' = tracer_enable_tp(fail)
            /\ sink_on' = tracer_enable_sink(fail)
            /\ IF fail = "none"
               THEN /\ enabled' = TRUE
                    /\ ctl' = [ctl EXCEPT !.pc = "en_set"]
                    /\ UNCHANGED enable_mutex
               ELSE /\ enable_mutex' = "free"
                    /\ ctl' = [ctl EXCEPT !.pc = "idle", !.ret = "err"]
                    /\ UNCHANGED enabled
    /\ UNCHANGED << wdi, cfg_vars, cnt_vars, dev, now, armer, wr, rec, idle_vars,
                    reg, csinfo, bpf, pbe >>

\* wult_enable(): already enabled, or wult_tracer_enable() and 'enabled = true'.
wult_enable_body ==
    /\ ctl.pc = "en_locked"
    /\ IF enabled
       THEN /\ enable_mutex' = "free"
            /\ ctl' = [ctl EXCEPT !.pc = "idle", !.ret = "ok", !.noop = TRUE]
            /\ UNCHANGED << enabled, trc_vars >>
       ELSE \E fail \in tracer_enable_failures :
            /\ ti' = tracer_enable_ti(ti)
            /\ tp_registered' = tracer_enable_tp(fail)
            /\ sink_on' = tracer_enable_sink(fail)
            /\ IF fail = "none"
               THEN /\ enabled' = TRUE
                    /\ ctl' = [ctl EXCEPT !.pc = "en_set"]
                    /\ UNCHANGED enable_mutex
               ELSE /\ enable_mutex' = "free"
                    /\ ctl' = [ctl EXCEPT !.pc = "idle", !.ret = "err"]
                    /\ UNCHANGED enabled
    /\ UNCHANGED << wdi, cfg_vars, cnt_vars, dev, now, armer, wr, rec, idle_vars,
                    reg, csinfo, bpf, pbe >>

\* wult_enable(): atomic_set(&wi->events_armed, 0)
wult_enable_reset_armed ==
    /\ ctl.pc = "en_set"
    /\ events_armed' = 0
    /\ ctl' = [ctl EXCEPT !.pc = "en_armed0"]
    /\ UNCHANGED << wdi, cfg_vars, enabled, enable_mutex, events_happened,
                    event_cpu, irq_err, trc_vars, dev, now, armer, wr, rec, idle_vars,
                    reg, csinfo, bpf, pbe >>

\* wult_enable(): atomic_set(&wi->events_happened, 0); wake_up(); mutex_unlock()
wult_enable_reset_happened ==
    /\ ctl.pc = "en_armed0"
    /\ events_happened' = 0
    /\ enable_mutex' = "free"
    /\ ctl' = [ctl EXCEPT !.pc = "idle", !.ret = "ok"]
    /\ UNCHANGED << wdi, cfg_vars, enabled, events_armed, event_cpu, irq_err,
                    trc_vars, dev, now, armer, wr, rec, idle_vars,
                    reg, csinfo, bpf, pbe >>

\* wult_disable() without mutex_lock(&wi->enable_mutex).
wult_disable_unlocked ==
    /\ ctl.pc = "idle"
    /\ ctl.n < MaxCtlOps
    /\ reg.uapi
    /\ ctl' = [ctl EXCEPT !.n = @ + 1, !.ret = "ok", !.noop = ~enabled]
    /\ IF enabled
       THEN /\ enabled' = FALSE
            /\ tp_registered' = FALSE
            /\ sink_on' = FALSE
       ELSE UNCHANGED << enabled, tp_registered, sink_on >>
    /\ UNCHANGED << wdi, cfg_vars, enable_mutex, cnt_vars, ti, dev, now, armer,
                    wr, rec, idle_vars,
                    reg, csinfo, bpf, pbe >>

\* wult_disable(), called by the writer of the 'enabled' file.
wult_disable ==
    /\ ctl.pc = "idle"
    /\ ctl.n < MaxCtlOps
    /\ reg.uapi
    /\ enable_mutex = "free"
    /\ ctl' = [ctl EXCEPT !.n = @ + 1, !.ret = "ok", !.noop = ~enabled]
    /\ IF enabled
       THEN /\ enabled' = FALSE
            /\ tp_registered' = FALSE
            /\ sink_on' = FALSE
       ELSE UNCHANGED << enabled, tp_registered, sink_on >>
    /\ UNCHANGED << wdi, cfg_vars, enable_mutex, cnt_vars, ti, dev, now, armer,
                    wr, rec, idle_vars,
                    reg, csinfo, bpf, pbe >>

\* ------------------------------------------------- configuration writes

\* dfs_write_rw_u64_file() without the test of 'wi->enabled'.
rw_u64_never_busy(en) == FALSE

\* dfs_write_rw_u64_file(): 'if (wi->enabled) err = -EBUSY'
rw_u64_busy(en) == en

\* dfs_write_rw_u64_file(): the range check against the device's bounds.
rw_u64_in_range(val) == ~(val > wdi.ldist_max \/ val < wdi.ldist_min)

\* dfs_write_rw_u64_file(): the check against the other end of the range.
rw_u64_ordered(file, val) ==
    IF file = "ldist_from" THEN ~(val > ldist_to) ELSE ~(val < ldist_from)

\* dfs_write_rw_u64_file(), up to the test of 'wi->enabled'. The test is made
\* under wi->enable_lock, which wult_enable() does not take.
dfs_write_rw_u64_file_begin(file, val) ==
    /\ wr.pc = "idle"
    /\ wr.n < MaxWrites
    /\ IF rw_u64_busy(enabled)
       THEN wr' = [wr EXCEPT !.file = file, !.val = val, !.ret = "EBUSY",
                             !.n = @ + 1, !.busy = enabled]
       ELSE wr' = [wr EXCEPT !.pc = "commit", !.file = file, !.val = val,
                             !.ret = "none", !.n = @ + 1, !.busy = enabled]
    /\ UNCHANGED << wdi, cfg_vars, enabled, enable_mutex, cnt_vars, trc_vars, dev,
                    now, armer, ctl, rec, idle_vars,
                    reg, csinfo, bpf, pbe >>

\* dfs_write_rw_u64_file(), from the range check to the assignment.
dfs_write_rw_u64_file_commit ==
    /\ wr.pc = "commit"
    /\ wr.file \in {"ldist_from", "ldist_to"}
    /\ IF rw_u64_in_range(wr.val) /\ rw_u64_ordered(wr.file, wr.val)
       THEN /\ ldist_from' = IF wr.file = "ldist_from" THEN wr.val ELSE ldist_from
            /\ ldist_to' = IF wr.file = "ldist_to" THEN wr.val ELSE ldist_to
            /\ wr' = [wr EXCEPT !.pc = "idle", !.ret = "ok"]
       ELSE /\ UNCHANGED << ldist_from, ldist_to >>
            /\ wr' = [wr EXCEPT !.pc = "idle", !.ret = "EINVAL"]
    /\ UNCHANGED << wdi, early_intr, enabled, enable_mutex, cnt_vars, trc_vars,
                    dev, now, armer, ctl, rec, idle_vars,
                    reg, csinfo, bpf, pbe >>

\* set_bool() without the test.
set_bool_always_allowed(cur, val, en) == TRUE

\* set_bool(): 'if (*boolptr == val || !wi->enabled)'
set_bool_allowed(cur, val, en) == cur = val \/ ~en

\* set_bool() for the early_intr file, up to the test.
set_bool_begin(val) ==
    /\ wr.pc = "idle"
    /\ wr.n < MaxWrites
    /\ IF set_bool_allowed(early_intr, val, enabled)
       THEN wr' = [wr EXCEPT !.pc = "commit", !.file = "early_intr",
                             !.val = IF val THEN 1 ELSE 0,
                             !.ret = "none", !.n = @ + 1, !.busy = enabled]
       ELSE wr' = [wr EXCEPT !.file = "early_intr",
                             !.val = IF val THEN 1 ELSE 0, !.ret = "EBUSY",
                             !.n = @ + 1, !.busy = enabled]
    /\ UNCHANGED << wdi, cfg_vars, enabled, enable_mutex, cnt_vars, trc_vars, dev,
                    now, armer, ctl, rec, idle_vars,
                    reg, csinfo, bpf, pbe >>

\* set_bool(): '*boolptr = val'
set_bool_commit ==
    /\ wr.pc = "commit"
    /\ wr.file = "early_intr"
    /\ early_intr' = (wr.val = 1)
    /\ wr' = [wr EXCEPT !.pc = "idle", !.ret = "ok"]
    /\ UNCHANGED << wdi, ldist_from, ldist_to, enabled, enable_mutex, cnt_vars,
                    trc_vars, dev, now, armer, ctl, rec, idle_vars,
                    reg, csinfo, bpf, pbe >>

\* ------------------------------------------------- the tracer's hot paths

\* read_data_after_idle() without the test of event_has_happened().
read_data_after_idle_unchecked(t) == t

\* read_data_after_idle(): the time after idle, or 0 when the armed event has
\* not happened.
read_data_after_idle(t) == IF event_has_happened(dev, t) THEN t ELSE 0

\* cpu_idle_hook(), idle entry: reset the flags, before_idle().
hook_entry(t) ==
    [ t EXCEPT !.got_dp = FALSE, !.discard_dp = FALSE, !.ai_finished = FALSE,
               !.intr_finished = FALSE, !.tsc1 = TscBefore, !.tbi = now,
               !.bi_finished = TRUE, !.ai_irqs_on = FALSE, !.intr_first = FALSE ]

\* What rdtsc_ordered() may return after idle: a later value, or an earlier one
\* when the counter has stepped back, which the model lets happen with the
\* hrtimer device.
TscAfter == IF wdi.kind = "hrtimer" THEN {1, 3} ELSE {3}

\* read_data_after_idle(): wult_cstates_read_after() is reached only when the
\* armed event has happened. 'tsc' is what rdtsc_ordered() returns.
cstates_read_after(old, tsc) == IF event_has_happened(dev, now) THEN tsc ELSE old

\* after_idle(), 'irqs_off' is what irqs_disabled() returns.
after_idle(t, irqs_off, tsc) ==
    IF ~t.bi_finished THEN t
    ELSE IF t.intr_finished THEN t
    ELSE [ t EXCEPT !.tai = read_data_after_idle(now),
                    !.tsc2 = cstates_read_after(@, tsc),
                    !.event_happened = event_has_happened(dev, now),
                    !.discard_dp = IF ~irqs_off THEN TRUE ELSE @,
                    !.got_dp = TRUE,
                    !.ai_irqs_on = IF ~irqs_off THEN TRUE ELSE @ ]

\* cpu_idle_hook(), idle exit: after_idle(), then 'ai_finished = true'.
hook_exit(t, irqs_off, tsc) ==
    [ after_idle(t, irqs_off, tsc) EXCEPT !.ai_finished = TRUE ]

\* wult_tracer_interrupt()
wult_tracer_interrupt(t, tsc) ==
    IF ~t.bi_finished THEN t
    ELSE IF t.ai_finished
         THEN [ t EXCEPT !.tintr = IF t.got_dp THEN now ELSE @,
                         !.intr_finished = TRUE ]
         ELSE [ t EXCEPT !.tintr = read_data_after_idle(now),
                         !.tai = read_data_after_idle(now),
                         !.tsc2 = cstates_read_after(@, tsc),
                         !.event_happened = event_has_happened(dev, now),
                         !.got_dp = TRUE,
                         !.intr_finished = TRUE,
                         !.intr_first = TRUE ]

\* The armer thread cannot run: it sleeps on its wait queue with the condition
\* false, is parked, or is blocked on the enable mutex. Only then does the
\* measured CPU, which the thread is bound to, go idle.
ArmerBlocked ==
    \/ armer.pc = "wait_enable" /\ ~enabled
    \/ /\ armer.pc = "wait_event"
       /\ events_happened = armer.events_happened
       /\ now < armer.deadline
    \/ armer.pc = "parked"
    \/ armer.pc \in {"lock", "error"} /\ enable_mutex # "free"

\* The cpu_idle tracepoint fires on the measured CPU with a C-state index.
IdleEntry ==
    /\ tp_registered
    /\ ~in_idle
    /\ ArmerBlocked
    /\ nidle < MaxIdle
    /\ \E deadline \in ProgrammedDeadlines :
           dev' = get_time_before_idle(dev, deadline)
    /\ ti' = hook_entry(ti)
    /\ nidle' = nidle + 1
    /\ in_idle' = TRUE
    /\ UNCHANGED << wdi, cfg_vars, enabled, enable_mutex, cnt_vars, tp_registered,
                    sink_on, now, armer, ctl, wr, rec,
                    reg, csinfo, bpf, pbe >>

\* The cpu_idle tracepoint fires on the measured CPU with PWR_EVENT_EXIT. The
\* probe may have been unregistered while the CPU was idle.
IdleExit ==
    /\ in_idle
    /\ in_idle' = FALSE
    /\ IF tp_registered
       THEN \E irqs_off \in BOOLEAN, tsc \in TscAfter :
                ti' = hook_exit(ti, irqs_off, tsc)
       ELSE UNCHANGED ti
    /\ UNCHANGED << wdi, cfg_vars, enabled, enable_mutex, cnt_vars, tp_registered,
                    sink_on, dev, now, armer, ctl, wr, rec, nidle,
                    reg, csinfo, bpf, pbe >>

\* The device's interrupt handler: wult_interrupt_start(), then
\* wult_interrupt_finish(err). It runs on the CPU the event was routed to, and
\* not on the measured CPU while that CPU is in the idle exit hook with
\* interrupts masked.
DevInterrupt ==
    /\ dev.armed
    /\ dev.route # "lost"
    /\ now >= dev.expiry
    /\ ~(ti.ai_pc # "none" /\ ti.ai_irqs_off /\ dev.route = "target")
    /\ \E err \in IrqErrors, tsc \in TscAfter :
        /\ ti' = wult_tracer_interrupt(ti, tsc)
        /\ irq_err' = err
        /\ event_cpu' = IF dev.route = "target" THEN cpunum ELSE cpunum + 1
        /\ events_happened' = events_happened + 1
    /\ dev' = [dev EXCEPT !.armed = FALSE]
    /\ UNCHANGED << wdi, cfg_vars, enabled, enable_mutex, events_armed,
                    tp_registered, sink_on, now, armer, ctl, wr, rec, idle_vars,
                    reg, csinfo, bpf, pbe >>

\* ------------------------------------------------------- the armer thread

\* pick_ldist(): 'if (wi->ldist_from > wi->ldist_to) wi->ldist_from = wi->ldist_to'
pick_ldist_from == IF ldist_from > ldist_to THEN ldist_to ELSE ldist_from

\* pick_ldist(): the random value in [ldist_from, ldist_to]; the model draws
\* every value of a narrow range and the two ends of a wide one.
pick_ldist_random ==
    IF ldist_to - pick_ldist_from <= MaxPickSpan
    THEN pick_ldist_from .. ldist_to
    ELSE {pick_ldist_from, ldist_to}

\* pick_ldist() without the rounding.
pick_ldist_no_round(x) == x

\* pick_ldist() rounding down.
pick_ldist_round_down(x) ==
    IF wdi.ldist_gran > 1 THEN (x \div wdi.ldist_gran) * wdi.ldist_gran ELSE x

\* pick_ldist(): round up to the device's granularity.
pick_ldist_round(x) ==
    IF wdi.ldist_gran > 1
    THEN ((x + wdi.ldist_gran - 1) \div wdi.ldist_gran) * wdi.ldist_gran
    ELSE x

\* The timeout without the extra second.
ArmerTimeoutMs_short(ldist) == ldist \div 1000000

\* armer_kthread(): 'timeout = ktime_to_ms(ns_to_ktime(ldist)) + 1000'
ArmerTimeoutMs(ldist) == (ldist \div 1000000) + 1000

\* msecs_to_jiffies(timeout), on the device clock.
ArmerTimeoutNs(ldist) == ArmerTimeoutMs(ldist) * 1000000

\* check_event() without the test of the CPU the event happened on.
check_event_any_cpu ==
    IF events_armed # events_happened THEN "count"
    ELSE IF irq_err # 0 THEN "irq"
    ELSE "ok"

\* check_event()
check_event ==
    IF event_cpu # cpunum THEN "cpu"
    ELSE IF events_armed # events_happened THEN "count"
    ELSE IF irq_err # 0 THEN "irq"
    ELSE "ok"

\* The armer thread runs on the measured CPU: not while that CPU is idle, and
\* not while the device's interrupt is pending there.
ArmerRuns == ~in_idle /\ ~IrqPending

\* armer_kthread(): wait_event(enabled) returns and the thread has not been
\* asked to stop; sample events_happened. The thread's locals are kept only
\* while they are live.
armer_wake ==
    /\ armer.pc = "wait_enable"
    /\ ArmerRuns
    /\ enabled
    /\ ~armer.stop
    /\ armer' = [armer EXCEPT !.pc = "arm", !.events_happened = events_happened]
    /\ UNCHANGED << wdi, cfg_vars, enabled, enable_mutex, cnt_vars, trc_vars, dev,
                    now, ctl, wr, rec, idle_vars,
                    reg, csinfo, bpf, pbe >>

\* armer_kthread(): pick_ldist(), wult_tracer_arm_event(), atomic_inc(events_armed),
\* and the start of wait_event_timeout(). The arm operation of every device
\* returns 0.
armer_arm ==
    /\ armer.pc = "arm"
    /\ ArmerRuns
    /\ armer.narm < MaxEvents
    /\ ldist_from' = pick_ldist_from
    /\ \E x \in pick_ldist_random, route \in Routes :
        LET ldist == pick_ldist_round(x) IN
        /\ ArmerTimeoutNs(ldist) <= MaxTime - now
        /\ dev' = arm_event(dev, ldist, route)
        /\ ti' = [ti EXCEPT !.ldist = ldist]
        /\ events_armed' = events_armed + 1
        /\ armer' = [armer EXCEPT !.pc = "wait_event",
                                  !.deadline = now + ArmerTimeoutNs(ldist),
                                  !.narm = @ + 1]
    /\ UNCHANGED << wdi, ldist_to, early_intr, enabled, enable_mutex,
                    events_happened, event_cpu, irq_err, tp_registered, sink_on,
                    now, ctl, wr, rec, idle_vars,
                    reg, csinfo, bpf, pbe >>

\* wait_event_timeout() returns because events_happened has changed.
armer_event_wake ==
    /\ armer.pc = "wait_event"
    /\ ArmerRuns
    /\ events_happened # armer.events_happened
    /\ armer' = [armer EXCEPT !.pc = "check", !.events_happened = 0, !.deadline = 0,
                              !.err = 1]
    /\ UNCHANGED << wdi, cfg_vars, enabled, enable_mutex, cnt_vars, trc_vars, dev,
                    now, ctl, wr, rec, idle_vars,
                    reg, csinfo, bpf, pbe >>

\* wait_event_timeout() returns 0: 'if (err == 0 && wi->enabled) goto error'
armer_timeout ==
    /\ armer.pc = "wait_event"
    /\ ArmerRuns
    /\ events_happened = armer.events_happened
    /\ now >= armer.deadline
    /\ armer' = [armer EXCEPT !.pc = IF enabled THEN "error" ELSE "check",
                              !.why = IF enabled THEN "timeout" ELSE @,
                              !.events_happened = 0, !.deadline = 0, !.err = 0]
    /\ UNCHANGED << wdi, cfg_vars, enabled, enable_mutex, cnt_vars, trc_vars, dev,
                    now, ctl, wr, rec, idle_vars,
                    reg, csinfo, bpf, pbe >>

\* armer_kthread(): 'err = check_event(); if (err) goto error'
armer_check ==
    /\ armer.pc = "check"
    /\ ArmerRuns
    /\ armer' = IF check_event = "ok" THEN [armer EXCEPT !.pc = "lock", !.err = 0]
                ELSE [armer EXCEPT !.pc = "error", !.why = check_event, !.err = 0]
    /\ UNCHANGED << wdi, cfg_vars, enabled, enable_mutex, cnt_vars, trc_vars, dev,
                    now, ctl, wr, rec, idle_vars,
                    reg, csinfo, bpf, pbe >>

\* A send that tests got_dp alone.
send_data_any_dp(t) == t.got_dp

\* wult_tracer_send_data(): 'if (!ti->got_dp || ti->discard_dp) return 0'
send_data_have_dp(t) == ~(~t.got_dp \/ t.discard_dp)

\* wult_tracer_send_data(): 'if (ltime <= ti->tbi || ltime >= ti->tai) return 0'
send_data_in_window(ltime, t) == ~(ltime <= t.tbi \/ ltime >= t.tai)

\* wult_cstates_calc(): 'csinfo->tsc = csinfo->tsc2 - csinfo->tsc1'
wult_cstates_calc(t) ==
    [ t EXCEPT !.tsc = (t.tsc2 - t.tsc1 + CounterModulus) % CounterModulus ]

\* wult_tracer_send_data(): the record written to the synthetic event. TotCyc is
\* csinfo.tsc as it is before the wult_cstates_calc() of this record.
send_data_record(t) ==
    [ valid |-> TRUE, tbi |-> t.tbi, ltime |-> get_launch_time(dev), tai |-> t.tai,
      tintr |-> t.tintr, ldist |-> t.ldist, event_happened |-> t.event_happened,
      ai_irqs_on |-> t.ai_irqs_on, intr_first |-> t.intr_first,
      TotCyc |-> t.tsc, tsc1 |-> t.tsc1, tsc2 |-> t.tsc2,
      \* not a field of the record: the instant the event of this iteration was
      \* armed
      armed_at |-> dev.expiry - t.ldist,
      events_armed |-> events_armed, events_happened |-> events_happened,
      enabled |-> enabled, sink_on |-> sink_on, mutex |-> enable_mutex ]

\* armer_kthread(): 'mutex_lock(&wi->enable_mutex); if (wi->enabled)'. When the
\* engine is no longer enabled the mutex is released at once.
armer_lock ==
    /\ armer.pc = "lock"
    /\ ArmerRuns
    /\ enable_mutex = "free"
    /\ IF enabled
       THEN /\ enable_mutex' = "armer"
            /\ armer' = [armer EXCEPT !.pc = "send"]
       ELSE /\ UNCHANGED enable_mutex
            /\ armer' = [armer EXCEPT !.pc = "wait_enable"]
    /\ UNCHANGED << wdi, cfg_vars, enabled, cnt_vars, trc_vars, dev, now, ctl, wr,
                    rec, idle_vars,
                    reg, csinfo, bpf, pbe >>

\* wult_tracer_send_data(): 'ti->got_dp = ti->discard_dp = false'
send_data_clear(t) == [t EXCEPT !.got_dp = FALSE, !.discard_dp = FALSE]

\* armer_kthread(): wult_tracer_send_data() and mutex_unlock(). 'trace_err' is a
\* failure of synth_event_trace_start(), ahead of wult_cstates_calc().
armer_send ==
    /\ armer.pc = "send"
    /\ ArmerRuns
    /\ enable_mutex' = "free"
    /\ IF ~send_data_have_dp(ti)
       THEN /\ armer' = [armer EXCEPT !.pc = "wait_enable"]
            /\ UNCHANGED << ti, rec >>
       ELSE IF ~send_data_in_window(get_launch_time(dev), ti)
       THEN /\ armer' = [armer EXCEPT !.pc = "wait_enable"]
            /\ ti' = send_data_clear(ti)
            /\ UNCHANGED rec
       ELSE \E trace_err \in BOOLEAN :
            IF trace_err
            THEN /\ armer' = [armer EXCEPT !.pc = "error", !.why = "send"]
                 /\ ti' = send_data_clear(ti)
                 /\ UNCHANGED rec
            ELSE /\ armer' = [armer EXCEPT !.pc = "wait_enable"]
                 /\ ti' = wult_cstates_calc(send_data_clear(ti))
                 /\ rec' = IF sink_on THEN send_data_record(ti) ELSE rec
    /\ UNCHANGED << wdi, cfg_vars, enabled, cnt_vars, tp_registered, sink_on, dev,
                    now, ctl, wr, idle_vars,
                    reg, csinfo, bpf, pbe >>

\* The 'error' label without the loop that waits for the stop: wult_disable(),
\* then back to the head of the armer's loop.
armer_error_resume ==
    /\ armer.pc = "error"
    /\ ArmerRuns
    /\ enable_mutex = "free"
    /\ armer' = [armer EXCEPT !.pc = "wait_enable"]
    /\ IF enabled
       THEN /\ enabled' = FALSE
            /\ tp_registered' = FALSE
            /\ sink_on' = FALSE
       ELSE UNCHANGED << enabled, tp_registered, sink_on >>
    /\ UNCHANGED << wdi, cfg_vars, enable_mutex, cnt_vars, ti, dev, now, ctl, wr,
                    rec, idle_vars,
                    reg, csinfo, bpf, pbe >>

\* armer_kthread(), the 'error' label: wult_disable(), then wait to be stopped.
armer_error ==
    /\ armer.pc = "error"
    /\ ArmerRuns
    /\ enable_mutex = "free"
    /\ armer' = [armer EXCEPT !.pc = "parked"]
    /\ IF enabled
       THEN /\ enabled' = FALSE
            /\ tp_registered' = FALSE
            /\ sink_on' = FALSE
       ELSE UNCHANGED << enabled, tp_registered, sink_on >>
    /\ UNCHANGED << wdi, cfg_vars, enable_mutex, cnt_vars, ti, dev, now, ctl, wr,
                    rec, idle_vars,
                    reg, csinfo, bpf, pbe >>

\* ------------------------------------------------ wult_register / unregister

\* What a registration leaves alone: the engine's state apart from the device,
\* the launch distance range and the armer thread.
eng_vars == << early_intr, enabled, enable_mutex, cnt_vars, trc_vars, dev, now,
               ctl, wr, rec, idle_vars, csinfo, bpf, pbe >>

\* The devices the drivers register.
RegDevices == {hrtimer_dev, igb_dev}

\* wult_register() without the test of 'wi->wdi'.
register_never_busy(w) == FALSE

\* wult_register(): 'if (wi->wdi)'
register_busy(w) == w # no_dev

\* kthread_stop(wi->armer): the thread leaves its loop, or its wait for the stop,
\* calls the device's exit operation and is gone.
armer_stopped == [armer EXCEPT !.pc = "none", !.stop = TRUE, !.exits = @ + 1]

\* wult_register(): try_module_get() and mutex_lock(&wi->dev_mutex).
wult_register_lock(t, d) ==
    /\ reg.thr[t].pc = "idle"
    /\ reg.n < MaxRegs
    /\ reg.dev_mutex = 0
    /\ reg' = [reg EXCEPT !.dev_mutex = t, !.n = @ + 1,
                          !.thr[t] = [pc |-> "check", dev |-> d, ret |-> "none"]]
    /\ UNCHANGED << wdi, ldist_from, ldist_to, armer, eng_vars >>

\* wult_register(): -EBUSY when a device is recorded, else init_wdi(); then
\* mutex_unlock(&wi->dev_mutex).
wult_register_check(t) ==
    /\ reg.thr[t].pc = "check"
    /\ IF register_busy(wdi)
       THEN /\ reg' = [reg EXCEPT !.dev_mutex = 0, !.thr[t].pc = "idle",
                                  !.thr[t].ret = "EBUSY"]
            /\ UNCHANGED << wdi, ldist_from, ldist_to >>
       ELSE /\ wdi' = reg.thr[t].dev
            /\ ldist_from' = init_wdi_from(reg.thr[t].dev)
            /\ ldist_to' = init_wdi_to(reg.thr[t].dev)
            /\ reg' = [reg EXCEPT !.dev_mutex = 0, !.thr[t].pc = "tracer_init"]
    /\ UNCHANGED << armer, eng_vars >>

\* wult_register(): wult_tracer_init(); on failure 'goto err_put'.
wult_register_tracer_init(t) ==
    /\ reg.thr[t].pc = "tracer_init"
    /\ \E fail \in BOOLEAN :
        reg' = IF fail
               THEN [reg EXCEPT !.thr[t].pc = "idle", !.thr[t].ret = "err"]
               ELSE [reg EXCEPT !.tracer = TRUE, !.thr[t].pc = "kthread"]
    /\ UNCHANGED << wdi, ldist_from, ldist_to, armer, eng_vars >>

\* wult_register(): kthread_create(), kthread_bind(), wake_up_process(); on
\* failure 'goto err_tracer'.
wult_register_kthread(t) ==
    /\ reg.thr[t].pc = "kthread"
    /\ \E fail \in BOOLEAN :
        IF fail
        THEN /\ reg' = [reg EXCEPT !.tracer = FALSE, !.thr[t].pc = "idle",
                                   !.thr[t].ret = "err"]
             /\ UNCHANGED armer
        ELSE /\ reg' = [reg EXCEPT !.thr[t].pc = "wait_init"]
             /\ armer' = [armer_zero EXCEPT !.pc = "init"]
    /\ UNCHANGED << wdi, ldist_from, ldist_to, eng_vars >>

\* armer_kthread(), before its loop: delayed_event_device_init(), then
\* 'wi->initialized = true', and 'wi->init_err = err' on the init_error path only.
armer_init ==
    /\ armer.pc = "init"
    /\ \E err \in BOOLEAN :
        IF err
        THEN /\ reg' = [reg EXCEPT !.initialized = TRUE, !.init_err = TRUE]
             /\ armer' = [armer EXCEPT !.pc = "exited"]
        ELSE /\ reg' = [reg EXCEPT !.initialized = TRUE, !.dev_inited = TRUE]
             /\ armer' = [armer EXCEPT !.pc = "wait_enable"]
    /\ UNCHANGED << wdi, ldist_from, ldist_to, eng_vars >>

\* wult_register(): wait_event(wi->armer_wq, wi->initialized), then
\* 'if (wi->init_err) goto err_tracer'.
wult_register_wait_init(t) ==
    /\ reg.thr[t].pc = "wait_init"
    /\ reg.initialized
    /\ reg' = IF reg.init_err
              THEN [reg EXCEPT !.tracer = FALSE, !.thr[t].pc = "idle",
                               !.thr[t].ret = "err"]
              ELSE [reg EXCEPT !.thr[t].pc = "uapi"]
    /\ UNCHANGED << wdi, ldist_from, ldist_to, armer, eng_vars >>

\* wult_register(): wult_uapi_device_register(); on failure 'goto err_kthread',
\* else return 0.
wult_register_uapi(t) ==
    /\ reg.thr[t].pc = "uapi"
    /\ \E fail \in BOOLEAN :
        IF fail
        THEN /\ reg' = [reg EXCEPT !.tracer = FALSE, !.dev_inited = FALSE,
                                   !.thr[t].pc = "idle", !.thr[t].ret = "err"]
             /\ armer' = armer_stopped
        ELSE /\ reg' = [reg EXCEPT !.uapi = TRUE, !.thr[t].pc = "registered",
                                   !.thr[t].ret = "ok"]
             /\ UNCHANGED armer
    /\ UNCHANGED << wdi, ldist_from, ldist_to, eng_vars >>

\* wult_unregister(), called by the driver whose wult_register() returned 0.
wult_unregister(t) ==
    /\ reg.thr[t].pc = "registered"
    /\ reg.dev_mutex = 0
    /\ enable_mutex = "free"
    /\ IF enabled
       THEN /\ enabled' = FALSE
            /\ tp_registered' = FALSE
            /\ sink_on' = FALSE
       ELSE UNCHANGED << enabled, tp_registered, sink_on >>
    /\ armer' = armer_stopped
    /\ wdi' = no_dev
    /\ reg' = [reg EXCEPT !.uapi = FALSE, !.tracer = FALSE, !.dev_inited = FALSE,
                          !.thr[t].pc = "idle", !.thr[t].ret = "none"]
    /\ UNCHANGED << cfg_vars, enable_mutex, cnt_vars, ti, dev, now, ctl, wr, rec,
                    idle_vars, csinfo, bpf, pbe >>

\* ------------------------------------------------------------------ time

\* The instants the clock may move to: the expiry of the armed event, the
\* instant after it while the interrupt or the idle exit is still to come, the
\* TSC deadline latched before idle and the instant after it while the CPU is
\* idle, and the end of the armer's wait.
TimePoints ==
    { t \in (IF dev.armed \/ in_idle THEN {dev.expiry, dev.expiry + 1} ELSE {})
            \cup (IF in_idle /\ dev.deadline_before # 0
                  THEN {dev.deadline_before, dev.deadline_before + 1} ELSE {})
            \cup (IF armer.pc = "wait_event" THEN {armer.deadline} ELSE {}) :
        t > now /\ t <= MaxTime }

Tick ==
    /\ \E t \in TimePoints : now' = t
    /\ UNCHANGED << wdi, cfg_vars, enabled, enable_mutex, cnt_vars, trc_vars, dev,
                    armer, ctl, wr, rec, idle_vars,
                    reg, csinfo, bpf, pbe >>

\* ------------------------------------------------------------------ Next

\* The control thread: writes of 1 and 0 to the 'enabled' file.
NextCtl ==
    \/ wult_enable_lock
    \/ wult_enable_body
    \/ wult_enable_reset_armed
    \/ wult_enable_reset_happened
    \/ wult_disable

\* Writes to the ldist_from_nsec, ldist_to_nsec and early_intr files.
NextWrite ==
    \/ \E file \in {"ldist_from", "ldist_to"}, val \in WriteVals :
           dfs_write_rw_u64_file_begin(file, val)
    \/ dfs_write_rw_u64_file_commit
    \/ \E val \in BOOLEAN : set_bool_begin(val)
    \/ set_bool_commit

\* The armer thread, the device's interrupt and the clock.
NextArmer ==
    \/ armer_wake
    \/ armer_arm
    \/ armer_event_wake
    \/ armer_timeout
    \/ armer_check
    \/ armer_lock
    \/ armer_send
    \/ armer_error
    \/ DevInterrupt
    \/ Tick

\* The cpu_idle tracepoint on the measured CPU.
NextIdle ==
    \/ IdleEntry
    \/ IdleExit

\* The measurement engine with the launch distance range of init_wdi().
Next == NextCtl \/ NextArmer \/ NextIdle

Spec == Init /\ [][Next]_vars

\* The control surface: the configuration files, the 'enabled' file and the
\* armer thread on a measured CPU that stays busy.
InitCfg == InitWith(CfgDevices)

NextCfg == NextCtl \/ NextWrite \/ NextArmer

SpecCfg == InitCfg /\ [][NextCfg]_vars

\* The armer picking launch distances from narrow ranges, on a measured CPU
\* that stays busy.
InitPick == InitWith(PickDevices)

NextPick == NextCtl \/ NextArmer

SpecPick == InitPick /\ [][NextPick]_vars

\* The state after wult_init(): no device, no armer thread.
wult_init ==
    /\ wdi = no_dev
    /\ ldist_from = 0
    /\ ldist_to = 0
    /\ early_intr = FALSE
    /\ enabled = FALSE
    /\ enable_mutex = "free"
    /\ events_armed = 0
    /\ events_happened = 0
    /\ event_cpu = 0
    /\ irq_err = 0
    /\ ti = ti_zero
    /\ tp_registered = FALSE
    /\ sink_on = FALSE
    /\ dev = dev_zero
    /\ now = 0
    /\ armer = armer_zero
    /\ ctl = [pc |-> "idle", n |-> 0, ret |-> "none", noop |-> FALSE]
    /\ wr = [pc |-> "idle", file |-> "none", val |-> 0, ret |-> "none", n |-> 0,
             busy |-> FALSE]
    /\ rec = rec_none
    /\ nidle = 0
    /\ in_idle = FALSE
    /\ reg = reg_zero

InitReg == wult_init /\ csinfo = csinfo_zero /\ bpf = bpf_zero /\ pbe = pbe_zero

\* The drivers registering and unregistering their devices, and the armer
\* thread's initialisation.
NextReg ==
    \/ \E t \in Registrars, d \in RegDevices : wult_register_lock(t, d)
    \/ \E t \in Registrars : wult_register_check(t)
    \/ \E t \in Registrars : wult_register_tracer_init(t)
    \/ \E t \in Registrars : wult_register_kthread(t)
    \/ armer_init
    \/ \E t \in Registrars : wult_register_wait_init(t)
    \/ \E t \in Registrars : wult_register_uapi(t)
    \/ \E t \in Registrars : wult_unregister(t)

SpecReg == InitReg /\ [][NextReg]_vars

\* ------------------------------------------------- unpaired idle notifications

\* The cpu_idle tracepoint fires on the measured CPU with PWR_EVENT_EXIT once
\* more, with no idle entry since the last exit.
IdleExitAgain ==
    /\ tp_registered
    /\ ~in_idle
    /\ nidle > 0
    /\ \E irqs_off \in BOOLEAN, tsc \in TscAfter :
           ti' = hook_exit(ti, irqs_off, tsc)
    /\ UNCHANGED << wdi, cfg_vars, enabled, enable_mutex, cnt_vars, tp_registered,
                    sink_on, dev, now, armer, ctl, wr, rec, idle_vars,
                    reg, csinfo, bpf, pbe >>

\* The engine with the hrtimer device on a measured CPU whose idle exits may be
\* notified more than once.
InitExit == InitWith({hrtimer_dev})

NextExit == NextCtl \/ NextArmer \/ NextIdle \/ IdleExitAgain

SpecExit == InitExit /\ [][NextExit]_vars

\* ------------------------------------------------- the idle exit hook, step by step

\* cpu_idle_hook() with PWR_EVENT_EXIT, entered: after_idle() up to its early
\* returns. 'irqs_off' is the interrupt state of the CPU in the hook.
after_idle_begin ==
    /\ in_idle
    /\ ti.ai_pc = "none"
    /\ IF ~tp_registered
       THEN /\ in_idle' = FALSE
            /\ UNCHANGED ti
       ELSE /\ UNCHANGED in_idle
            /\ \E irqs_off \in BOOLEAN :
                 ti' = [ti EXCEPT !.ai_irqs_off = irqs_off,
                                  !.ai_pc = IF ~ti.bi_finished \/ ti.intr_finished
                                            THEN "finish" ELSE "read"]
    /\ UNCHANGED << wdi, cfg_vars, enabled, enable_mutex, cnt_vars, tp_registered,
                    sink_on, dev, now, armer, ctl, wr, rec, nidle, reg, csinfo, bpf, pbe >>

\* after_idle(): 'ti->tai = read_data_after_idle(wi, cyc1)'
after_idle_read ==
    /\ ti.ai_pc = "read"
    /\ \E tsc \in TscAfter :
           ti' = [ti EXCEPT !.tai = read_data_after_idle(now),
                            !.tsc2 = cstates_read_after(@, tsc),
                            !.event_happened = event_has_happened(dev, now),
                            !.ai_pc = "flags"]
    /\ UNCHANGED << wdi, cfg_vars, enabled, enable_mutex, cnt_vars, tp_registered,
                    sink_on, dev, now, armer, ctl, wr, rec, idle_vars, reg, csinfo, bpf, pbe >>

\* after_idle(): 'if (!irqs_disabled()) ti->discard_dp = true; ti->got_dp = true'
after_idle_flags ==
    /\ ti.ai_pc = "flags"
    /\ ti' = [ti EXCEPT !.discard_dp = IF ~ti.ai_irqs_off THEN TRUE ELSE @,
                        !.got_dp = TRUE,
                        !.ai_irqs_on = IF ~ti.ai_irqs_off THEN TRUE ELSE @,
                        !.ai_pc = "finish"]
    /\ UNCHANGED << wdi, cfg_vars, enabled, enable_mutex, cnt_vars, tp_registered,
                    sink_on, dev, now, armer, ctl, wr, rec, idle_vars, reg, csinfo, bpf, pbe >>

\* cpu_idle_hook(): 'ti->ai_finished = true', and the CPU leaves the hook.
hook_exit_finish ==
    /\ ti.ai_pc = "finish"
    /\ ti' = [ti EXCEPT !.ai_finished = TRUE, !.ai_pc = "none",
                        !.ai_irqs_off = FALSE]
    /\ in_idle' = FALSE
    /\ UNCHANGED << wdi, cfg_vars, enabled, enable_mutex, cnt_vars, tp_registered,
                    sink_on, dev, now, armer, ctl, wr, rec, nidle, reg, csinfo, bpf, pbe >>

\* The idle exit hook with the interrupt handler free to run between its steps
\* when interrupts are enabled.
NextIdleSteps ==
    \/ IdleEntry
    \/ after_idle_begin
    \/ after_idle_read
    \/ after_idle_flags
    \/ hook_exit_finish

\* The engine with the hrtimer device and the idle exit hook taken step by step.
InitNest == InitWith({hrtimer_dev})

NextNest == NextCtl \/ NextArmer \/ NextIdleSteps

SpecNest == InitNest /\ [][NextNest]_vars

\* The engine with the hrtimer device, whose event fires once for each arm on
\* the measured CPU, from the return of a first wult_enable(): MaxCtlOps more
\* operations on the 'enabled' file follow.
InitReenable == InitEngineAt({hrtimer_dev}, {FALSE}, TRUE)

SpecReenable == InitReenable /\ [][Next]_vars

\* ------------------------------------------------- stopping the armer thread

\* wult_unregister(): wult_uapi_device_unregister(), which waits for the writers
\* of the files to return, and wult_disable().
wult_unregister_disable(t) ==
    /\ reg.thr[t].pc = "registered"
    /\ ctl.pc = "idle"
    /\ wr.pc = "idle"
    /\ enable_mutex = "free"
    /\ IF enabled
       THEN /\ enabled' = FALSE
            /\ tp_registered' = FALSE
            /\ sink_on' = FALSE
       ELSE UNCHANGED << enabled, tp_registered, sink_on >>
    /\ reg' = [reg EXCEPT !.uapi = FALSE, !.thr[t].pc = "kthread_stop"]
    /\ UNCHANGED << wdi, cfg_vars, enable_mutex, cnt_vars, ti, dev, now, armer,
                    ctl, wr, rec, idle_vars, csinfo, bpf, pbe >>

\* kthread_stop(wi->armer): set the should-stop flag and wake_up_process(), which
\* makes a sleeping task runnable and does nothing to a running one.
kthread_stop(t) ==
    /\ reg.thr[t].pc = "kthread_stop"
    /\ armer' = [armer EXCEPT !.stop = TRUE, !.task = "running"]
    /\ reg' = [reg EXCEPT !.thr[t].pc = "kthread_exited"]
    /\ UNCHANGED << wdi, cfg_vars, enabled, enable_mutex, cnt_vars, trc_vars, dev,
                    now, ctl, wr, rec, idle_vars, csinfo, bpf, pbe >>

\* kthread_stop() returns when the thread has exited; then wult_tracer_exit()
\* and 'wi->wdi = NULL' under the device mutex.
wult_unregister_finish(t) ==
    /\ reg.thr[t].pc = "kthread_exited"
    /\ armer.pc = "none"
    /\ reg.dev_mutex = 0
    /\ wdi' = no_dev
    /\ reg' = [reg EXCEPT !.tracer = FALSE, !.thr[t].pc = "idle",
                          !.thr[t].ret = "none"]
    /\ UNCHANGED << cfg_vars, enabled, enable_mutex, cnt_vars, trc_vars, dev, now,
                    armer, ctl, wr, rec, idle_vars, csinfo, bpf, pbe >>

\* The thread leaves armer_kthread(): 'wi->wdi->ops->exit(wi->wdi); return'.
armer_exit == [armer EXCEPT !.pc = "none", !.exits = @ + 1]

\* armer_kthread(): wait_event(enabled || kthread_should_stop()) returns,
\* 'if (kthread_should_stop()) break', and the exit after the loop.
armer_should_stop ==
    /\ armer.pc = "wait_enable"
    /\ ArmerRuns
    /\ armer.stop
    /\ armer' = armer_exit
    /\ reg' = [reg EXCEPT !.dev_inited = FALSE]
    /\ UNCHANGED << wdi, cfg_vars, enabled, enable_mutex, cnt_vars, trc_vars, dev,
                    now, ctl, wr, rec, idle_vars, csinfo, bpf, pbe >>

\* The 'error' label, 'while (!kthread_should_stop())': the test of the flag,
\* and the exit when it is set.
armer_park_test ==
    /\ armer.pc = "parked"
    /\ ArmerRuns
    /\ IF armer.stop
       THEN /\ armer' = armer_exit
            /\ reg' = [reg EXCEPT !.dev_inited = FALSE]
       ELSE /\ armer' = [armer EXCEPT !.pc = "park_set"]
            /\ UNCHANGED reg
    /\ UNCHANGED << wdi, cfg_vars, enabled, enable_mutex, cnt_vars, trc_vars, dev,
                    now, ctl, wr, rec, idle_vars, csinfo, bpf, pbe >>

\* The 'error' label: '__set_current_state(TASK_INTERRUPTIBLE)'
armer_park_set ==
    /\ armer.pc = "park_set"
    /\ armer' = [armer EXCEPT !.pc = "park_schedule", !.task = "interruptible"]
    /\ UNCHANGED << wdi, cfg_vars, enabled, enable_mutex, cnt_vars, trc_vars, dev,
                    now, ctl, wr, rec, idle_vars, reg, csinfo, bpf, pbe >>

\* The 'error' label: schedule() returns once the task is runnable again.
armer_park_schedule ==
    /\ armer.pc = "park_schedule"
    /\ armer.task = "running"
    /\ armer' = [armer EXCEPT !.pc = "parked"]
    /\ UNCHANGED << wdi, cfg_vars, enabled, enable_mutex, cnt_vars, trc_vars, dev,
                    now, ctl, wr, rec, idle_vars, reg, csinfo, bpf, pbe >>

\* The steps of the armer thread, from its loop to its exit.
ArmerThread ==
    \/ armer_wake
    \/ armer_arm
    \/ armer_event_wake
    \/ armer_timeout
    \/ armer_check
    \/ armer_lock
    \/ armer_send
    \/ armer_error
    \/ armer_should_stop
    \/ armer_park_test
    \/ armer_park_set
    \/ armer_park_schedule

\* The driver that registered the device unregisters it.
NextUnregister ==
    \/ wult_unregister_disable(1)
    \/ kthread_stop(1)
    \/ wult_unregister_finish(1)

\* The engine with the NIC, on a measured CPU that stays busy, until the driver
\* unregisters the device.
InitStop == InitWith({igb_dev})

NextStop == NextCtl \/ ArmerThread \/ DevInterrupt \/ Tick \/ NextUnregister

\* The armer thread and the thread in wult_unregister() are scheduled as long
\* as they can run, the clock moves on, and a raised interrupt is handled.
SpecStop ==
    /\ InitStop /\ [][NextStop]_vars
    /\ WF_vars(ArmerThread)
    /\ WF_vars(NextUnregister)
    /\ WF_vars(DevInterrupt)
    /\ WF_vars(Tick)

\* ------------------------------------------------------- cstates.c

\* a - b in u64 arithmetic.
u64_sub(a, b) == (a - b + CounterModulus) % CounterModulus

\* intel_cstate_init(): 'fails' are the entries whose rdmsrl_safe() faults,
\* 'cc1_model' tells that the CPU model is one of those listed as having the CC1
\* residency counter.
intel_cstate_init(cs, fails, cc1_model) ==
    LET probed == [ i \in 1 .. Len(intel_cstates) |->
                      IF i \in fails
                      THEN [intel_cstates[i] EXCEPT !.msr = FALSE, !.absent = TRUE]
                      ELSE intel_cstates[i] ]
        cc1 == IF probed[1].absent THEN [probed[1] EXCEPT !.absent = FALSE]
               ELSE IF cc1_model THEN probed[1]
               ELSE [probed[1] EXCEPT !.msr = FALSE]
    IN  [cs EXCEPT !.cstates = [probed EXCEPT ![1] = cc1]]

\* What the hardware returns before idle: the TSC, MPERF and every residency
\* counter.
HwBefore == [tsc |-> TscBefore, mperf |-> 1, cyc |-> 0]

\* What the hardware may return after idle. The residency counters and MPERF
\* never step back; the reads are not one atomic sample, so the counters of a
\* sample need not add up to the TSC.
HwTscAfter == {1, 12}
HwMperfAfter == {1, 6}
HwCycAfter == {0, 3}

\* for_each_cstate_msr(): the names of the entries that have a counter, in the
\* order of the table, from entry i on.
RECURSIVE cstate_msr_names(_, _)
cstate_msr_names(cst, i) ==
    IF i > Len(cst) THEN << >>
    ELSE (IF cst[i].msr THEN << cst[i].name >> ELSE << >>)
         \o cstate_msr_names(cst, i + 1)

\* wult_cstates_read_before(): rdtsc_ordered(), MSR_IA32_MPERF, then the
\* residency counters.
wult_cstates_read_before(cs) ==
    [ cs EXCEPT !.tsc1 = HwBefore.tsc, !.mperf1 = HwBefore.mperf,
                !.reads = << "tsc", "mperf" >> \o cstate_msr_names(cs.cstates, 1),
                !.cstates = [ i \in DOMAIN cs.cstates |->
                                IF cs.cstates[i].msr
                                THEN [cs.cstates[i] EXCEPT !.cyc1 = HwBefore.cyc]
                                ELSE cs.cstates[i] ] ]

\* wult_cstates_read_after(): MSR_IA32_MPERF, rdtsc_ordered(), then the
\* residency counters. 'cyc' gives what each counter returns.
wult_cstates_read_after(cs, tsc, mperf, cyc) ==
    [ cs EXCEPT !.mperf2 = mperf, !.tsc2 = tsc,
                !.reads = << "mperf", "tsc" >> \o cstate_msr_names(cs.cstates, 1),
                !.cstates = [ i \in DOMAIN cs.cstates |->
                                IF cs.cstates[i].msr
                                THEN [cs.cstates[i] EXCEPT !.cyc2 = cyc[i]]
                                ELSE cs.cstates[i] ] ]

\* wult_cstates_calc() summing the delta of every counter, package C-states
\* included.
calc_counted_all(csi) == csi.msr

\* wult_cstates_calc(): 'for_each_cstate_msr(csinfo, csi) if (csi->core)'
calc_counted(csi) == csi.msr /\ csi.core

\* wult_cstates_calc(): 'cyc += csi->cyc' over the counted entries from i on.
RECURSIVE calc_cyc_sum(_, _)
calc_cyc_sum(cst, i) ==
    IF i > Len(cst) THEN 0
    ELSE ( (IF calc_counted(cst[i]) THEN cst[i].cyc ELSE 0)
           + calc_cyc_sum(cst, i + 1) ) % CounterModulus

\* wult_cstates_calc(), after the TSC delta: the MPERF delta, the delta of every
\* residency counter, and CC1 derived from them when it has no counter.
wult_cstates_calc_cyc(cs) ==
    LET mperf == u64_sub(cs.mperf2, cs.mperf1)
        deltas == [ i \in DOMAIN cs.cstates |->
                      IF cs.cstates[i].msr
                      THEN [cs.cstates[i] EXCEPT
                               !.cyc = u64_sub(cs.cstates[i].cyc2, cs.cstates[i].cyc1)]
                      ELSE cs.cstates[i] ]
        cyc == (calc_cyc_sum(deltas, 1) + mperf) % CounterModulus
    IN  [ cs EXCEPT !.mperf = mperf,
                    !.cstates = IF ~deltas[1].msr
                                THEN [deltas EXCEPT ![1].cyc = u64_sub(cs.tsc, cyc)]
                                ELSE deltas ]

\* wult_cstates_init(), on an Intel CPU.
cst_init ==
    /\ csinfo.pc = "none"
    /\ \E fails \in SUBSET (1 .. Len(intel_cstates)), cc1_model \in BOOLEAN :
           csinfo' = [intel_cstate_init(csinfo, fails, cc1_model) EXCEPT !.pc = "before"]
    /\ UNCHANGED << wdi, cfg_vars, enabled, enable_mutex, cnt_vars, trc_vars, dev,
                    now, armer, ctl, wr, rec, idle_vars, reg,
                    bpf, pbe >>

\* before_idle(): wult_cstates_read_before()
cst_read_before ==
    /\ csinfo.pc = "before"
    /\ csinfo' = [wult_cstates_read_before(csinfo) EXCEPT !.pc = "after"]
    /\ UNCHANGED << wdi, cfg_vars, enabled, enable_mutex, cnt_vars, trc_vars, dev,
                    now, armer, ctl, wr, rec, idle_vars, reg,
                    bpf, pbe >>

\* read_data_after_idle(): wult_cstates_read_after()
cst_read_after ==
    /\ csinfo.pc = "after"
    /\ \E tsc \in HwTscAfter, mperf \in HwMperfAfter,
          cyc \in [DOMAIN csinfo.cstates -> HwCycAfter] :
           csinfo' = [wult_cstates_read_after(csinfo, tsc, mperf, cyc)
                          EXCEPT !.pc = "calc"]
    /\ UNCHANGED << wdi, cfg_vars, enabled, enable_mutex, cnt_vars, trc_vars, dev,
                    now, armer, ctl, wr, rec, idle_vars, reg,
                    bpf, pbe >>

\* wult_tracer_send_data(): wult_cstates_calc(), whose deltas are then added to
\* the record.
cst_calc ==
    /\ csinfo.pc = "calc"
    /\ csinfo' = [wult_cstates_calc_cyc(wult_cstates_calc(csinfo)) EXCEPT !.pc = "done"]
    /\ UNCHANGED << wdi, cfg_vars, enabled, enable_mutex, cnt_vars, trc_vars, dev,
                    now, armer, ctl, wr, rec, idle_vars, reg,
                    bpf, pbe >>

\* The C-state counters alone: the table is set up, the counters are read before
\* and after idle and the deltas are computed.
InitCst == wult_init /\ csinfo = csinfo_zero /\ bpf = bpf_zero /\ pbe = pbe_zero

NextCst == cst_init \/ cst_read_before \/ cst_read_after \/ cst_calc

SpecCst == InitCst /\ [][NextCst]_vars

\* The measurement engine after user space has written 1 to the early_intr file
\* of the disabled engine: the writer of 'enabled', the armer thread and the
\* idle measured CPU, with the timer device.
InitEarly == InitEngine({timer_dev}, {TRUE})

NextEarly == NextCtl \/ NextArmer \/ NextIdle

SpecEarly == InitEarly /\ [][NextEarly]_vars

\* ================================================================ claims

\* C1: every record emitted by wult_tracer_send_data() has tbi < ltime < tai
\* and tbi < ltime < tintr, ltime being the launch time the device returned at
\* emission; a datapoint outside these bounds is not emitted.
C1_RecordInWindow ==
    rec.valid =>
        /\ rec.tbi < rec.ltime
        /\ rec.ltime < rec.tai
        /\ rec.ltime < rec.tintr

\* C2: at every moment a record is emitted, events_armed equals
\* events_happened.
C2_CountersEqualAtEmission ==
    rec.valid => rec.events_armed = rec.events_happened

\* C3: when event_has_happened() is false at the wake-up, no record is emitted
\* for that iteration, the engine stays enabled and the armer returns to the
\* head of its loop to arm the next event.
C3_ForeignWakeDropped ==
    [][ ( /\ armer.pc = "send" /\ armer'.pc # "send"
          /\ enabled /\ ti.got_dp /\ ~ti.event_happened )
        => ( rec' = rec /\ enabled' /\ armer'.pc = "wait_enable" ) ]_vars

\* The CPU left idle before the armed event (tai = 0), the interrupt came later
\* (tintr > 0), the armer has sent nothing for that datapoint and has armed the
\* next event.
C3_witness ==
    /\ armer.pc = "wait_event" /\ armer.narm = 2 /\ enabled
    /\ dev.armed /\ events_armed = 2 /\ events_happened = 1
    /\ ti.ai_finished /\ ~ti.got_dp /\ ~ti.event_happened /\ ti.tai = 0
    /\ ti.tintr > 0
    /\ ~rec.valid

\* C9: when the armed event does not fire and the engine stays enabled, the
\* armer's wait ends no sooner than (launch distance in ms + 1000 ms) after the
\* event was armed, the armer takes its error path, and the engine is disabled
\* when it parks.
C9_TimeoutThenDisabled ==
    [][ /\ ( /\ armer.pc = "wait_event" /\ armer'.pc # "wait_event"
             /\ events_happened = armer.events_happened /\ enabled )
           => ( /\ now >= (dev.expiry - ti.ldist)
                          + ((ti.ldist \div 1000000) + 1000) * 1000000
                /\ armer'.pc = "error" )
        /\ ( armer.pc = "error" /\ armer'.pc # "error" )
           => ( ~enabled' /\ armer'.pc = "parked" ) ]_vars

\* The armer is parked after its wait timed out and the engine is disabled.
C9_witness ==
    /\ armer.pc = "parked" /\ armer.why = "timeout"
    /\ ~enabled
    /\ events_happened = 0 /\ events_armed = 1
    /\ now >= 1000000000

\* C10: when the event's interrupt was handled on another CPU than the measured
\* one, check_event() fails, the armer disables the engine, and no record is
\* emitted on the way.
C10_WrongCpuDisables ==
    [][ /\ ( armer.pc = "check" /\ armer'.pc # "check" /\ event_cpu # cpunum )
           => ( armer'.pc = "error" /\ rec' = rec )
        /\ ( armer.pc = "error" /\ armer'.pc # "error" )
           => ( ~enabled' /\ rec' = rec ) ]_vars

\* The armer is parked because the event happened on the other CPU.
C10_witness ==
    /\ armer.pc = "parked" /\ armer.why = "cpu"
    /\ event_cpu = cpunum + 1
    /\ ~enabled
    /\ ~rec.valid

\* A write to ldist_from_nsec or ldist_to_nsec tests 'wi->enabled' in this step.
rw_u64_write_starts ==
    wr'.n = wr.n + 1 /\ wr'.file \in {"ldist_from", "ldist_to"}

\* A write to early_intr tests 'wi->enabled' in this step.
bool_write_starts ==
    wr'.n = wr.n + 1 /\ wr'.file = "early_intr"

\* C4: a write to ldist_from or ldist_to made while the engine is enabled fails
\* with EBUSY, whatever the value, and leaves ldist_from and ldist_to unchanged.
C4_WriteWhileEnabledBusy ==
    [][ ( rw_u64_write_starts /\ enabled )
        => ( /\ wr'.ret = "EBUSY" /\ wr'.pc = "idle"
             /\ ldist_from' = ldist_from /\ ldist_to' = ldist_to ) ]_vars

\* A write of a value inside the device's range was refused while enabled.
C4_witness ==
    /\ wr.ret = "EBUSY" /\ wr.file = "ldist_from" /\ wr.val = 300 /\ wr.busy
    /\ enabled
    /\ ldist_from = init_wdi_from(wdi) /\ ldist_to = init_wdi_to(wdi)

\* C5: ldist_from, ldist_to and early_intr do not change from the moment enabled
\* becomes true to the moment it next becomes false.
C5_ConfigFrozenWhileEnabled ==
    [][ ( enabled /\ enabled' )
        => ( /\ ldist_from' = ldist_from /\ ldist_to' = ldist_to
             /\ early_intr' = early_intr ) ]_vars

\* C6: ldist_min <= ldist_from <= ldist_to <= ldist_max in every state after the
\* registration of a device with ldist_min <= ldist_max.
C6_RangeOrdered ==
    (wdi.ldist_min <= wdi.ldist_max)
    => ( /\ wdi.ldist_min <= ldist_from
         /\ ldist_from <= ldist_to
         /\ ldist_to <= wdi.ldist_max )

C8_BoolWriteWhileEnabledBusy ==
    [][ ( bool_write_starts /\ enabled ) => wr'.ret = "EBUSY" ]_vars

\* C8 as amended: while the engine is enabled, a write to early_intr of the
\* other value is rejected with EBUSY; a write of the value it already holds
\* succeeds; in both cases early_intr keeps its value.
C8_BoolToggleWhileEnabledBusy ==
    [][ /\ ( bool_write_starts /\ enabled )
           => ( /\ early_intr' = early_intr
                /\ IF (wr'.val = 1) = early_intr
                   THEN wr'.pc = "commit"
                   ELSE wr'.ret = "EBUSY" /\ wr'.pc = "idle" )
        /\ ( wr.pc = "commit" /\ wr'.pc # "commit" /\ wr.file = "early_intr"
             /\ wr.busy )
           => ( wr'.ret = "ok" /\ early_intr' = early_intr ) ]_vars

\* Both cases have happened while enabled: the write of the other value refused,
\* or the write of the same value done.
C8_witness ==
    /\ enabled /\ wr.busy /\ wr.file = "early_intr"
    /\ wr.pc = "idle" /\ wr.ret = "ok"
    /\ (wr.val = 1) = early_intr

C12_SendUnderMutexEnabled ==
    /\ ( armer.pc = "send" )
       => ( enable_mutex = "armer" /\ enabled /\ tp_registered /\ sink_on )
    /\ rec.valid
       => ( rec.mutex = "armer" /\ rec.enabled /\ rec.sink_on )

\* The armer is about to emit a datapoint that passes the checks of send_data,
\* while the writer of the 'enabled' file still has a wult_disable() to make.
C12_witness ==
    /\ armer.pc = "send"
    /\ send_data_have_dp(ti)
    /\ send_data_in_window(get_launch_time(dev), ti)
    /\ ctl.pc = "idle" /\ ctl.n < MaxCtlOps

\* C13: events_armed and events_happened are zero by the time enabled becomes
\* true, and no step of wult_enable() that resets a counter is taken while the
\* armer is inside an iteration, after it has sampled events_happened.
C13_CountersZeroedBeforeEnabled ==
    [][ /\ ( ~enabled /\ enabled' )
           => ( events_armed' = 0 /\ events_happened' = 0 )
        /\ ( armer.pc \in {"arm", "wait_event", "check", "lock", "send"} )
           => ~( ctl.pc \in {"en_set", "en_armed0"} /\ ctl'.pc # ctl.pc ) ]_vars

\* C14: after a wult_enable() that failed because wult_tracer_enable() failed,
\* in the registration of the probe or in the activation of the event, the
\* probe is not registered, the event is not active and enabled is false.
C14_EnableFailureRolledBack ==
    ( ctl.pc = "idle" /\ ctl.ret = "err" )
    => ( ~tp_registered /\ ~sink_on /\ ~enabled )

\* C15: wult_enable() on an enabled engine returns 0 and wult_disable() on a
\* disabled engine returns; neither changes enabled, the event counters, or the
\* registration of the probe and of the event.
C15_RepeatedCallsAreNoOps ==
    [][ /\ ( ctl.pc = "en_locked" /\ ctl'.pc # "en_locked" /\ enabled )
           => ( /\ ctl'.pc = "idle" /\ ctl'.ret = "ok"
                /\ enabled'
                /\ UNCHANGED << events_armed, events_happened, tp_registered,
                                sink_on >> )
        /\ ( ctl.pc = "idle" /\ ctl'.pc = "idle" /\ ctl'.n = ctl.n + 1 /\ ~enabled )
           => ( /\ ~enabled'
                /\ UNCHANGED << events_armed, events_happened, tp_registered,
                                sink_on >> ) ]_vars

\* wult_enable() has returned 0 on an engine that was already enabled and had
\* an event armed.
C15_witness ==
    /\ ctl.pc = "idle" /\ ctl.n = 2 /\ ctl.noop /\ ctl.ret = "ok"
    /\ enabled /\ events_armed = 1 /\ tp_registered /\ sink_on

\* wult_disable() has returned on a disabled engine whose probe was left
\* registered by a failed wult_enable().
C15_witness_disable ==
    /\ ctl.pc = "idle" /\ ctl.n = 2 /\ ctl.noop /\ ctl.ret = "ok"
    /\ ~enabled /\ tp_registered /\ ~sink_on

\* The callers of wult_register() that are past the test of 'wi->wdi': their
\* registration is under way or has returned 0.
RegOwners(r) ==
    { t \in Registrars : r.thr[t].pc \in {"tracer_init", "kthread", "wait_init",
                                          "uapi", "registered"} }

\* C16: a wult_register() that finds a device recorded returns -EBUSY and
\* changes neither the recorded device nor the launch distance range, the armer
\* thread or what has been set up; at no time are two callers past the test.
C16_SecondRegisterBusy ==
    [][ /\ \A t \in Registrars :
             ( reg.thr[t].pc = "check" /\ reg'.thr[t].pc # "check" /\ wdi # no_dev )
             => ( /\ reg'.thr[t].ret = "EBUSY" /\ reg'.thr[t].pc = "idle"
                  /\ UNCHANGED << wdi, ldist_from, ldist_to, armer, eng_vars >>
                  /\ reg' = [reg EXCEPT !.dev_mutex = 0, !.thr[t].pc = "idle",
                                        !.thr[t].ret = "EBUSY"] )
        /\ Cardinality(RegOwners(reg')) <= 1 ]_vars

\* The second driver's wult_register() of another device has returned -EBUSY
\* while the first driver's device is registered.
C16_witness ==
    /\ reg.thr[1].pc = "registered" /\ reg.thr[1].ret = "ok"
    /\ reg.thr[2].pc = "idle" /\ reg.thr[2].ret = "EBUSY"
    /\ wdi = reg.thr[1].dev /\ reg.thr[2].dev # wdi
    /\ reg.uapi /\ armer.pc = "wait_enable"

\* C17: no record is emitted from a datapoint whose TSC snapshot taken before
\* idle is greater than the one taken after idle.
C17_BackwardsTscDropped ==
    rec.valid => rec.tsc1 <= rec.tsc2

\* C18: whatever wult_tracer_send_data() returns, a refusal of the record by the
\* synthetic event included, the armer goes back to the head of its loop and
\* the engine stays enabled.
C18_SinkRefusalNotFatal ==
    [][ ( armer.pc = "send" /\ armer'.pc # "send" )
        => ( armer'.pc = "wait_enable" /\ enabled' ) ]_vars

\* The next multiple of g that is not below x.
RoundUp(x, g) == IF g <= 1 THEN x ELSE CHOOSE m \in x .. (x + g - 1) : m % g = 0

\* C19: the launch distance the armer arms is some x of [ldist_from, ldist_to]
\* (ldist_from as pick_ldist() leaves it) rounded up to the next multiple of
\* ldist_gran: x itself when ldist_gran is 1, the single value rounded up when
\* ldist_from = ldist_to; and when the armer is about to pick, every x of the
\* range can be the one.
C19_PickedInRangeRoundedUp ==
    /\ [][ ( armer.pc = "arm" /\ armer'.pc = "wait_event" )
           => ( /\ \E x \in ldist_from' .. ldist_to' :
                       ti'.ldist = RoundUp(x, wdi.ldist_gran)
                /\ (wdi.ldist_gran = 1) => (ti'.ldist \in ldist_from' .. ldist_to')
                /\ (ldist_from' = ldist_to')
                   => (ti'.ldist = RoundUp(ldist_to', wdi.ldist_gran)) ) ]_vars
    /\ []( ( armer.pc = "arm" /\ ArmerRuns /\ armer.narm < MaxEvents /\ now = 0 )
           => \A x \in Min(ldist_from, ldist_to) .. ldist_to :
                  ENABLED ( armer_arm /\ ti'.ldist = RoundUp(x, wdi.ldist_gran) ) )

\* The armer has armed 1005 ns: 1003, the upper end of [1000, 1003], rounded up
\* to the granularity of 3.
C19_witness ==
    /\ wdi = narrow_dev /\ ldist_from = 1000 /\ ldist_to = 1003
    /\ dev.armed /\ ti.ldist = 1005 /\ armer.pc = "wait_event"

\* C20: every emitted record is made of values of its own iteration: tbi, tai
\* and tintr were captured after the event of the iteration was armed, and
\* TotCyc is the difference of the two TSC snapshots emitted with it.
C20_RecordFromOwnIteration ==
    rec.valid
    => ( /\ rec.tbi >= rec.armed_at
         /\ rec.tai >= rec.armed_at
         /\ rec.tintr >= rec.armed_at
         /\ rec.TotCyc = (rec.tsc2 - rec.tsc1 + CounterModulus) % CounterModulus )

\* C21: when early_intr is set, the interrupt of the armed event is handled
\* before after_idle(): at an idle exit of the enabled engine, when the armed
\* event has expired during the idle episode, the handler has finished, after_idle() collects
\* nothing, and the datapoint is the one the handler collected.
C21_EarlyIntrHandlerFirst ==
    [][ ( /\ early_intr /\ enabled /\ tp_registered
          /\ in_idle /\ ~in_idle'
          /\ ti.bi_finished /\ events_armed > 0
          /\ ti.tbi < dev.expiry /\ dev.expiry <= now )
        => ( /\ ti.intr_finished
             /\ ti'.tai = ti.tai /\ ti'.tintr = ti.tintr
             /\ ~ti'.discard_dp ) ]_vars

\* The core C-states other than CC1 that have a residency counter.
OtherCoreCounters(cs) ==
    { i \in 2 .. Len(cs.cstates) : cs.cstates[i].core /\ cs.cstates[i].msr }

\* The sum of the differences of the two snapshots of the counters of S.
RECURSIVE SnapshotDeltaSum(_, _)
SnapshotDeltaSum(cs, S) ==
    IF S = {} THEN 0
    ELSE LET i == CHOOSE j \in S : TRUE
         IN  (cs.cstates[i].cyc2 - cs.cstates[i].cyc1) + SnapshotDeltaSum(cs, S \ {i})

\* C22: when CC1 has no residency counter, the CC1 delta that wult_cstates_calc()
\* leaves is, in the counters' unsigned arithmetic, the TSC delta minus the MPERF
\* delta minus the deltas of the other core C-states; the package C-states'
\* deltas are not subtracted.
C22_DerivedCC1 ==
    ( csinfo.pc = "done" /\ ~csinfo.cstates[1].msr )
    => csinfo.cstates[1].cyc =
           ( (csinfo.tsc2 - csinfo.tsc1) - (csinfo.mperf2 - csinfo.mperf1)
             - SnapshotDeltaSum(csinfo, OtherCoreCounters(csinfo)) ) % CounterModulus

\* CC1 was derived as 10 - 5 - 3 = 2 cycles while the package C-state's counter
\* advanced by 3.
C22_witness ==
    /\ csinfo.pc = "done" /\ ~csinfo.cstates[1].msr /\ ~csinfo.cstates[1].absent
    /\ csinfo.tsc = 10 /\ csinfo.mperf = 5
    /\ csinfo.cstates[2].cyc = 3 /\ csinfo.cstates[3].cyc = 0
    /\ csinfo.cstates[4].cyc = 3
    /\ csinfo.cstates[1].cyc = 2

\* The core C-states that have a residency counter.
CoreCounters(cs) ==
    { i \in 1 .. Len(cs.cstates) : cs.cstates[i].core /\ cs.cstates[i].msr }

\* C23: in every set of deltas computed for a record, no subtraction has wrapped
\* around: the second snapshot of the TSC, of MPERF and of every residency
\* counter is not below the first, and the TSC delta is not below the MPERF delta
\* plus the deltas of the core C-states, so the derived CC1 is not negative.
C23_NoDeltaWraps ==
    ( csinfo.pc = "done" )
    => ( /\ csinfo.tsc2 >= csinfo.tsc1
         /\ csinfo.mperf2 >= csinfo.mperf1
         /\ \A i \in 1 .. Len(csinfo.cstates) :
                csinfo.cstates[i].msr
                => csinfo.cstates[i].cyc2 >= csinfo.cstates[i].cyc1
         /\ csinfo.tsc2 - csinfo.tsc1
               >= (csinfo.mperf2 - csinfo.mperf1)
                  + SnapshotDeltaSum(csinfo, CoreCounters(csinfo)) )

\* The armer sleeps in one of its waits: for the enable, for the armed event, or
\* for the stop after an error.
ArmerWaits ==
    armer.pc \in {"wait_enable", "wait_event", "parked", "park_set", "park_schedule"}

\* C24: once it has been asked to stop, the armer thread leaves each of its
\* waits (for the enable, for an armed event, for the stop after an error) and
\* terminates, and a thread that has terminated has called the device's exit
\* operation exactly once.
C24_StopTerminatesArmer ==
    /\ ( armer.stop /\ ArmerWaits ) ~> ( armer.pc = "none" )
    /\ []( armer.exits <= 1 /\ (armer.pc = "none" => armer.exits = 1) )

\* C25: while the engine measures, an idle exit notified again, with no idle
\* entry since the exit that collected the data, leaves the datapoint unchanged: tai, the counter snapshot
\* taken after idle and the flags of the datapoint keep what the first exit set.
C25_RepeatedExitIgnored ==
    [][ ( IdleExitAgain /\ enabled /\ events_armed > 0
          /\ ti.bi_finished /\ ti.ai_finished )
        => ( /\ ti'.tai = ti.tai /\ ti'.tsc2 = ti.tsc2
             /\ ti'.got_dp = ti.got_dp /\ ti'.discard_dp = ti.discard_dp
             /\ ti'.ai_finished = ti.ai_finished
             /\ ti'.intr_finished = ti.intr_finished ) ]_vars

\* C26: a datapoint that after_idle() collected with interrupts enabled, the
\* handler not having finished when after_idle() tested it (it may have run
\* between the steps of after_idle() since), is never emitted.
C26_IrqsOnDatapointDropped ==
    rec.valid => ~rec.ai_irqs_on

\* The handler ran inside after_idle(), after its test of intr_finished and
\* before its read of the data (the time after idle is later than the
\* handler's), and the armer has been through wult_tracer_send_data() with
\* this datapoint without emitting it.
C26_witness ==
    /\ ti.ai_irqs_on /\ ti.discard_dp /\ ti.got_dp
    /\ ti.intr_finished /\ ti.ai_finished /\ ti.tintr > 0 /\ ti.tai > ti.tintr
    /\ send_data_in_window(get_launch_time(dev), ti)
    /\ armer.pc = "wait_enable" /\ armer.narm = 1 /\ enabled /\ sink_on
    /\ events_happened = 1 /\ ~in_idle
    /\ ~rec.valid

\* C27: when the handler runs before after_idle(), the handler collects tintr,
\* tai and the counter snapshot after idle; after_idle() then changes nothing
\* of the datapoint; and the record emitted from these data has
\* tbi < ltime < tai, ltime < tintr, equal event counters and a TSC snapshot
\* after idle that is not below the one before idle.
C27_HandlerFirstRecord ==
    /\ [][ /\ ( /\ events_happened' = events_happened + 1 /\ dev.armed /\ ~dev'.armed
                /\ ti.bi_finished /\ ~ti.ai_finished /\ event_cpu' = cpunum )
             => ( /\ ti'.intr_finished /\ ti'.got_dp
                  /\ ti'.tai = ti'.tintr
                  /\ event_has_happened(dev, now)
                     => ( ti'.tintr = now /\ ti'.tsc2 \in TscAfter ) )
          /\ ( /\ in_idle /\ ~in_idle' /\ tp_registered /\ ti.intr_finished )
             => ( ti' = [ti EXCEPT !.ai_finished = TRUE] ) ]_vars
    /\ []( ( rec.valid /\ rec.intr_first )
           => ( /\ rec.tbi < rec.ltime /\ rec.ltime < rec.tai
                /\ rec.ltime < rec.tintr
                /\ rec.events_armed = rec.events_happened
                /\ rec.tsc1 <= rec.tsc2 ) )

\* C28: with a device that fires once for each arm on the measured CPU, a
\* disable and an enable during the armer's wait included, the armer never
\* takes its error path because events_armed differs from events_happened.
C28_ReenableKeepsCounters ==
    ~( armer.pc = "error" /\ armer.why = "count" )

\* C29: when the wait for the armed event times out with the engine disabled,
\* the armer does not take its error path: check_event() lets it go on to the
\* head of its loop.
C29_TimeoutWhileDisabledNotFatal ==
    [][ ( armer.pc = "check" /\ armer.err = 0 /\ armer'.pc # "check" )
        => ( armer'.pc # "error" ) ]_vars

\* C30: once a wult_register() call has failed after recording its device, in
\* wult_tracer_init(), the creation of the armer thread, the device's
\* initialisation or wult_uapi_device_register(), and no other call is in
\* progress or has registered, no device is recorded: a later wult_register()
\* is not refused with -EBUSY.
C30_FailedRegisterForgetsDevice ==
    ( /\ \E t \in Registrars : reg.thr[t].pc = "idle" /\ reg.thr[t].ret = "err"
      /\ \A t \in Registrars : reg.thr[t].pc = "idle" )
    => ( wdi = no_dev )

\* C31: a wult_register() call returns 0 only after the armer thread it created
\* has completed the device's init operation successfully, also when an earlier
\* registration was made and undone.
C31_RegisteredAfterDeviceInit ==
    [][ \A t \in Registrars :
          ( reg.thr[t].pc # "registered" /\ reg'.thr[t].pc = "registered" )
          => ( reg'.dev_inited /\ armer'.pc = "wait_enable" ) ]_vars

\* C32: every launch distance the armer passes to the device's arm operation,
\* rounded up to ldist_gran, lies within [ldist_min, ldist_max] of the device.
C32_ArmedLdistInDeviceRange ==
    [][ ( armer.pc = "arm" /\ armer'.pc = "wait_event" )
        => ( wdi.ldist_min <= ti'.ldist /\ ti'.ldist <= wdi.ldist_max ) ]_vars

\* C33: in the snapshot before idle and in the one after idle the residency
\* counters are read first, the active cycle counter next and the reference
\* cycle counter last.
C33_ReferenceCyclesReadLast ==
    ( csinfo.pc \in {"after", "calc"} )
    => ( csinfo.reads = cstate_msr_names(csinfo.cstates, 1) \o << "mperf", "tsc" >> )

\* The idle exit at which after_idle() asks the deadline timer device whether
\* the armed event has happened.
TimerAttribution ==
    /\ wdi.kind = "timer" /\ tp_registered
    /\ in_idle /\ ~in_idle'
    /\ ti.bi_finished /\ ~ti.intr_finished

\* The deadline register reads zero, the deadline read before idle is not zero
\* and the TSC has passed it.
DeadlineReached ==
    /\ msr_tsc_deadline(dev, now) = 0
    /\ dev.deadline_before # 0
    /\ now > dev.deadline_before

\* C34 as stated: the deadline timer device attributes the wake to the armed
\* event if and only if the deadline register reads zero after the wake, the
\* deadline read before idle is not zero and the TSC has passed it.
C34_AttributionIffDeadlineReached ==
    [][ TimerAttribution => ( ti'.event_happened <=> DeadlineReached ) ]_vars

\* C34: the deadline timer device attributes the wake to the armed event if and
\* only if the deadline register reads zero after the wake, the deadline read
\* before idle is not zero, the TSC has passed it, and the driver's own hrtimer
\* has expired.
C34_AttributionIffDeadlineAndTimer ==
    [][ TimerAttribution
        => ( ti'.event_happened <=> ( DeadlineReached /\ hrtimer_expired(dev, now) ) ) ]_vars

\* The CPU has left idle after the deadline it latched before idle and after the
\* expiry of the driver's timer, and the wake was attributed to the event.
C34_witness ==
    /\ wdi.kind = "timer" /\ ~in_idle /\ ti.ai_finished /\ ~ti.intr_finished
    /\ ti.got_dp /\ ti.event_happened /\ ti.tai = now
    /\ dev.deadline_before # 0 /\ now > dev.deadline_before
    /\ dev.armed /\ dev.expiry <= now


\* ------------------------------------------------ the eBPF helpers
\*
\* hrt-bpf.c ("hrt"), wultrunner/bpf-hrt.c ("runner") and tdt-bpf.c ("tdt") are
\* three programs of the same shape. A tracepoint handler runs to its end on
\* the CPU it traces; the callback of the bpf_timer runs on the CPU the kernel
\* queued the timer on, which need not be the measured one, and then runs
\* beside the handlers of the measured CPU: each statement of the body of the
\* callback is a step. Reads of the TSC are taken to succeed, so that in
\* tdt-bpf.c 'bic2', 'aic2' and 'intrc2' are set when 'bic', 'aic' and 'intrc'
\* are.

\* The clock of the helpers stops here.
MaxBpfTime == 7
\* Records the ring buffer holds before a reservation fails.
RingbufSlots == 2
\* The values bpf_get_prandom_u32() returns in the model.
RandVals == 0 .. 3
\* The largest maximum wult-tdt-helper.c accepts: LDIST_MAX, scaled to the clock
\* of the model.
MaxLdistArg == 6

HelperKinds == {"hrt", "runner", "tdt"}
HelperCpus == {"target", "other"}

\* The ranges user space gives with the -l option: min <= max.
LdistArgs == { <<2, 3>>, <<2, 2>> }

\* parse_options(), case 'l': the range the helper passes to its eBPF program,
\* or <<0, 0>> when it exits instead. wultrunner.c takes what sscanf() read;
\* wult-tdt-helper.c rejects min > max and max > LDIST_MAX and replaces
\* max = min by min + 1. The user-space part of wult-hrt-helper is not among the
\* sources: "hrt" is started with min < max only.
parse_options(kind, a) ==
    IF kind = "tdt"
    THEN IF a[1] > a[2] \/ a[2] > MaxLdistArg THEN <<0, 0>>
         ELSE IF a[2] = a[1] THEN <<a[1], a[1] + 1>> ELSE a
    ELSE IF kind = "hrt" /\ a[1] >= a[2] THEN <<0, 0>>
    ELSE a

\* 'a % b' of the eBPF program: a remainder by zero is undefined in C, the
\* program then holds any value.
bpf_mod(a, b) == IF b = 0 THEN RandVals ELSE {a % b}

\* cleanup_event() of tdt-bpf.c.
cleanup_event(h) == [h EXCEPT !.bpf_event = bpf_event_zero]

\* The 'cleanup:' label of send_event(): cleanup_event() in tdt-bpf.c, tbi, tai
\* and tintr in the other two, which keep the launch time of the event.
send_event_cleanup(h) ==
    IF h.kind = "tdt" THEN cleanup_event(h)
    ELSE [h EXCEPT !.bpf_event.tbi = 0, !.bpf_event.tai = 0, !.bpf_event.tintr = 0]

\* ping_cpu(): a one-byte record. tdt-bpf.c drops the datapoint instead when
\* the ring buffer holds unread data.
ping_cpu(h) ==
    IF h.kind = "tdt" /\ h.rb > 0 THEN cleanup_event(h)
    ELSE IF h.rb = RingbufSlots THEN h
    ELSE [h EXCEPT !.rb = @ + 1]

\* send_event(): 'if (!bpf_event.tai || !bpf_event.tintr || !bpf_event.tbi)'.
send_event_incomplete(e) == e.tai = 0 \/ e.tintr = 0 \/ e.tbi = 0

\* A check that does not look at the time of the interrupt.
send_event_bogus_no_tintr(e) == e.tbi >= e.ltime \/ e.tai <= e.ltime
\* send_event(): 'if (bpf_event.tbi >= bpf_event.ltime || ...) goto cleanup;'.
send_event_bogus(e) ==
    e.tbi >= e.ltime \/ e.tintr <= e.ltime \/ e.tai <= e.ltime

\* send_event(): 'if (!e)' after bpf_ringbuf_reserve(): tdt-bpf.c goes to
\* 'cleanup', hrt-bpf.c and bpf-hrt.c return.
send_event_failed(h) == IF h.kind = "tdt" THEN cleanup_event(h) ELSE h

\* send_event().
send_event(h) ==
    IF h.kind = "tdt" /\ h.timer_armed THEN h
    ELSE IF send_event_incomplete(h.bpf_event) THEN [h EXCEPT !.last = "incomplete"]
    ELSE IF send_event_bogus(h.bpf_event)
         THEN send_event_cleanup([h EXCEPT !.last = "dropped"])
    ELSE IF h.rb = RingbufSlots
         THEN send_event_failed([h EXCEPT !.last = "failed", !.lost = h.bpf_event])
    ELSE send_event_cleanup(
             [h EXCEPT !.last = "sent", !.rb = @ + 1, !.sub = h.bpf_event,
                       !.nsub = @ + 1,
                       !.resub = @ \/ h.bpf_event = h.lost,
                       !.sub_wrong = @ \/ h.wrong])

\* kick_timer(): the launch distances 'ldist % (max - min) + min' can be.
kick_timer_ldists(h) ==
    UNION { { m + h.min_t : m \in bpf_mod(r, h.max_t - h.min_t) } : r \in RandVals }

\* A test that does not look at timer_armed.
kick_timer_busy_any_armed(h) == h.bpf_event.tbi # 0
\* kick_timer(): 'if (bpf_event.tbi || timer_armed) return 0;'.
kick_timer_busy(h) == h.bpf_event.tbi # 0 \/ h.timer_armed

\* kick_timer() on CPU 'cpu_id' with launch distance 'ld', the kernel queueing
\* the timer on CPU 'tcpu'. tdt-bpf.c returns on another CPU than the measured
\* one, and its 'ltimec' is what tdt_bpf_write_msr() saw the measured CPU write
\* to the TSC deadline register: the deadline of this timer when the timer is
\* queued there.
kick_timer(h, ld, cpu_id, tcpu) ==
    IF kick_timer_busy(h) THEN h
    ELSE IF h.kind = "tdt" /\ cpu_id # "target" THEN h
    ELSE [h EXCEPT !.ldist = ld,
                   !.modzero = @ \/ h.max_t = h.min_t,
                   !.restart = @ \/ (h.tmr.on /\ ~h.tmr.probe),
                   !.kick_tbi = h.bpf_event.tbi,
                   !.ltime = IF h.kind = "tdt" /\ tcpu # "target" THEN @
                             ELSE h.now + ld,
                   !.timer_armed = TRUE,
                   !.tmr = [ on |-> TRUE, exp |-> h.now + ld, cpu |-> tcpu,
                             probe |-> FALSE ],
                   !.wrong = FALSE]

\* The local_timer_entry handlers on the measured CPU. bpf-hrt.c has none.
local_timer_entry(h) ==
    CASE h.kind = "tdt" ->
           IF h.bpf_event.tbi # 0 /\ h.timer_armed
           THEN LET h1 == [h EXCEPT !.bpf_event.tintr = h.now,
                                    !.bpf_event.ltime = h.ltime]
                IN  IF h1.bpf_event.tai = 0 THEN ping_cpu(h1) ELSE h1
           ELSE h
      [] h.kind = "hrt" ->
           IF h.bpf_event.tintr = 0 /\ h.now >= h.ltime
           THEN [h EXCEPT !.bpf_event.tintr = h.now]
           ELSE h
      [] OTHER -> h

\* The hrtimer_expire_entry handlers, for the timer of the helper. They do not
\* look at the CPU. tdt-bpf.c has none.
hrtimer_expire_entry(h) ==
    CASE h.kind = "hrt" ->
           IF h.bpf_event.tbi # 0 /\ h.bpf_event.tintr = 0
           THEN [h EXCEPT !.bpf_event.tintr = h.now]
           ELSE h
      [] h.kind = "runner" ->
           IF h.bpf_event.tbi # 0 THEN [h EXCEPT !.bpf_event.tintr = h.now] ELSE h
      [] OTHER -> h

\* tdt_bpf_cpu_idle(): 'if (restart_timer) { cleanup_event(); kick_timer();
\* restart_timer = false; }'.
cpu_idle_restart(h, ld, tcpu) ==
    IF h.kind = "tdt" /\ h.restart_timer
    THEN [kick_timer(cleanup_event(h), ld, "target", tcpu) EXCEPT !.restart_timer = FALSE]
    ELSE h

\* The cpu_idle handlers, cstate == PWR_EVENT_EXIT.
cpu_idle_exit(h, ld, tcpu) ==
    LET h1 == cpu_idle_restart(h, ld, tcpu)
    IN  IF h.kind = "tdt"
        THEN IF h1.bpf_event.tai # 0 THEN h1
             ELSE kick_timer(send_event([h1 EXCEPT !.bpf_event.tai = h.now]),
                             ld, "target", tcpu)
        ELSE LET h2 == IF h1.bpf_event.tintr # 0 \/ h.now >= h1.ltime
                       THEN [h1 EXCEPT !.bpf_event.tai = h.now]
                       ELSE [h1 EXCEPT !.bpf_event.tbi = 0]
             IN  kick_timer(send_event(h2), ld, "target", tcpu)

\* The cpu_idle handlers, idle entry.
cpu_idle_entry(h, ld, tcpu) ==
    LET h1 == cpu_idle_restart(h, ld, tcpu)
    IN  CASE h.kind = "tdt" ->
               IF ~h1.timer_armed THEN h1
               ELSE LET h2 == cleanup_event(h1)
                    IN  IF h.now >= h2.ltime THEN h2
                        ELSE [h2 EXCEPT !.bpf_event.tbi = h.now]
          [] h.kind = "hrt" ->
               [h1 EXCEPT !.bpf_event.tbi = IF h.now > h1.ltime THEN 0 ELSE h.now,
                          !.bpf_event.tai = 0, !.bpf_event.tintr = 0]
          [] OTHER ->
               [h1 EXCEPT !.bpf_event.tbi = IF h.now > h1.ltime THEN 0 ELSE h.now,
                          !.bpf_event.tai = 0]

\* The variables of the kernel driver, which the helpers do not touch.
drv_vars == << wdi, ldist_from, ldist_to, early_intr, enabled, enable_mutex,
               events_armed, events_happened, event_cpu, irq_err, ti,
               tp_registered, sink_on, dev, now, armer, ctl, wr, rec, nidle,
               in_idle, reg, csinfo >>

\* No handler of the measured CPU runs while the callback runs there.
bpf_target_free == ~(bpf.cb.pc # "none" /\ bpf.cb.cpu = "target")

\* What each step starts from: 'last' tells of the send_event() of this step.
bpf_step == [bpf EXCEPT !.last = "none"]

\* The clock advances.
BpfTick ==
    /\ bpf.now < MaxBpfTime
    /\ bpf' = [bpf_step EXCEPT !.now = @ + 1]
    /\ UNCHANGED << drv_vars, pbe >>

\* The measured CPU enters idle: the cpu_idle tracepoint.
BpfIdleEntry ==
    /\ ~bpf.idle
    /\ bpf_target_free
    /\ \E ld \in kick_timer_ldists(bpf), tcpu \in HelperCpus :
           bpf' = [cpu_idle_entry(bpf_step, ld, tcpu) EXCEPT !.idle = TRUE]
    /\ UNCHANGED << drv_vars, pbe >>

\* The measured CPU leaves idle: the cpu_idle tracepoint with PWR_EVENT_EXIT.
BpfIdleExit ==
    /\ bpf.idle
    /\ bpf_target_free
    /\ \E ld \in kick_timer_ldists(bpf), tcpu \in HelperCpus :
           bpf' = [cpu_idle_exit(bpf_step, ld, tcpu) EXCEPT !.idle = FALSE]
    /\ UNCHANGED << drv_vars, pbe >>

\* The timer of the helper expires on the CPU it is queued on: the tracepoints
\* of the interrupt, then the callback starts.
BpfTimerIrq ==
    /\ bpf.tmr.on
    /\ bpf.now >= bpf.tmr.exp
    /\ bpf.cb.pc = "none"
    /\ LET h1 == IF bpf.tmr.cpu = "target" THEN local_timer_entry(bpf_step)
                 ELSE bpf_step
       IN  bpf' = [hrtimer_expire_entry(h1) EXCEPT
                       !.tmr.on = FALSE,
                       !.cb = [ pc |-> "armed", cpu |-> bpf.tmr.cpu ]]
    /\ UNCHANGED << drv_vars, pbe >>

\* Another timer interrupts the measured CPU: local_timer_entry.
BpfOtherTimerIrq ==
    /\ bpf.kind # "runner"
    /\ bpf_target_free
    /\ bpf' = local_timer_entry(bpf_step)
    /\ UNCHANGED << drv_vars, pbe >>

\* tdt_bpf_write_msr(): the measured CPU programs the TSC deadline of another
\* timer.
BpfWriteMsr ==
    /\ bpf.kind = "tdt"
    /\ bpf_target_free
    /\ \E val \in { bpf.now + 1, bpf.now + 2 } :
           bpf' = [bpf_step EXCEPT !.ltime = val]
    /\ UNCHANGED << drv_vars, pbe >>

\* timer_callback(): 'timer_armed = false;'.
timer_callback_armed ==
    /\ bpf.cb.pc = "armed"
    /\ bpf' = [bpf_step EXCEPT
                  !.timer_armed = FALSE,
                  !.wrong = @ \/ (bpf.kind = "tdt" /\ bpf.cb.cpu # "target"),
                  !.cb.pc = IF bpf.kind # "tdt" THEN "event"
                            ELSE IF bpf.cb.cpu # "target" THEN "restart"
                            ELSE "send"]
    /\ UNCHANGED << drv_vars, pbe >>

\* timer_callback() of tdt-bpf.c: 'if (cpu_id != cpu_num) { restart_timer =
\* true; return 0; }'.
timer_callback_restart ==
    /\ bpf.cb.pc = "restart"
    /\ bpf' = [bpf_step EXCEPT !.restart_timer = TRUE, !.cb.pc = "none"]
    /\ UNCHANGED << drv_vars, pbe >>

\* timer_callback() of hrt-bpf.c and bpf-hrt.c: 'if (e->tbi) { ... e->ltime =
\* ltime; if (!e->tai) ping_cpu(); }'.
timer_callback_event ==
    /\ bpf.cb.pc = "event"
    /\ LET h1 == IF bpf.bpf_event.tbi # 0
                 THEN LET h2 == [bpf_step EXCEPT !.bpf_event.ltime = bpf.ltime]
                      IN  IF h2.bpf_event.tai = 0 THEN ping_cpu(h2) ELSE h2
                 ELSE bpf_step
       IN  bpf' = [h1 EXCEPT !.cb.pc = "send"]
    /\ UNCHANGED << drv_vars, pbe >>

\* timer_callback(): 'send_event();'.
timer_callback_send ==
    /\ bpf.cb.pc = "send"
    /\ bpf' = [send_event(bpf_step) EXCEPT !.cb.pc = "kick"]
    /\ UNCHANGED << drv_vars, pbe >>

\* timer_callback(): 'kick_timer();'.
timer_callback_kick ==
    /\ bpf.cb.pc = "kick"
    /\ \E ld \in kick_timer_ldists(bpf), tcpu \in HelperCpus :
           bpf' = [kick_timer(bpf_step, ld, bpf.cb.cpu, tcpu) EXCEPT !.cb.pc = "none"]
    /\ UNCHANGED << drv_vars, pbe >>

\* User space reads the ring buffer empty.
BpfUserRead ==
    /\ bpf.rb > 0
    /\ bpf' = [bpf_step EXCEPT !.rb = 0]
    /\ UNCHANGED << drv_vars, pbe >>

\* The state after the setup program (hrt_bpf_start_timer(), bpf_hrt_start_timer(),
\* tdt_bpf_setup()) has run on the measured CPU: it stores the range and calls
\* kick_timer(). hrt_bpf_start_timer() first starts the timer a millisecond
\* away to learn whether the kernel has absolute timers: with 'abs' that start
\* succeeded and the timer is queued when kick_timer() starts it again.
bpf_setup(kind, range, ld, tcpu, abs) ==
    kick_timer([bpf_zero EXCEPT
                   !.kind = kind, !.min_t = range[1], !.max_t = range[2],
                   !.tmr = IF kind = "hrt" /\ abs
                           THEN [ on |-> TRUE, exp |-> bpf_zero.now + MaxBpfTime,
                                  cpu |-> "target", probe |-> TRUE ]
                           ELSE @],
               ld, "target", tcpu)

\* The helpers that start, each with the range its parse_options() passes on.
HelperStarts(kinds) ==
    { <<k, parse_options(k, a)>> : k \in kinds, a \in LdistArgs } \
        { <<k, <<0, 0>>>> : k \in kinds }

InitBpfWith(kinds) ==
    /\ wult_init
    /\ csinfo = csinfo_zero
    /\ pbe = pbe_zero
    /\ \E s \in HelperStarts(kinds) :
         \E ld \in kick_timer_ldists([bpf_zero EXCEPT !.min_t = s[2][1], !.max_t = s[2][2]]),
            tcpu \in HelperCpus, abs \in BOOLEAN :
             bpf = bpf_setup(s[1], s[2], ld, tcpu, abs)

InitBpf == InitBpfWith(HelperKinds)

NextBpfCallback ==
    \/ timer_callback_armed
    \/ timer_callback_restart
    \/ timer_callback_event
    \/ timer_callback_send
    \/ timer_callback_kick

NextBpf ==
    \/ BpfTick
    \/ BpfIdleEntry
    \/ BpfIdleExit
    \/ BpfTimerIrq
    \/ BpfOtherTimerIrq
    \/ BpfWriteMsr
    \/ NextBpfCallback
    \/ BpfUserRead

SpecBpf == InitBpf /\ [][NextBpf]_vars


C36_FailedReserveDiscardsEvent ==
    /\ bpf.last = "failed" =>
          /\ bpf.bpf_event.tbi = 0
          /\ bpf.bpf_event.tai = 0
          /\ bpf.bpf_event.tintr = 0
    /\ ~bpf.resub


C38_LdistWithinAcceptedRange ==
    /\ ~bpf.modzero
    /\ bpf.tmr.on => (bpf.min_t <= bpf.ldist /\ bpf.ldist <= bpf.max_t)


\* ---------------------------------------------------------------- C39
\* C39: in the TDT eBPF helper, when the callback of the timer runs on another
\* CPU than the measured one, no event is submitted before a timer is started
\* again, and the next cpu_idle notification of the measured CPU clears the
\* datapoint collected so far and leaves the timer armed.
C39_RestartHandled ==
    [][ (bpf.restart_timer /\ bpf'.idle # bpf.idle) =>
           /\ ~bpf'.restart_timer
           /\ bpf'.timer_armed
           /\ bpf'.bpf_event.tintr = 0
           /\ bpf'.bpf_event.tai = 0 \/ bpf'.bpf_event.tai = bpf.now
           /\ bpf'.sub = bpf.sub ]_vars

C39_WrongCpuCallbackRestarts ==
    /\ [](~bpf.sub_wrong)
    /\ C39_RestartHandled


\* ------------------------------------------------ the pbe driver
\*
\* pbe.c: a worker thread that wakes the other CPUs every 'ldist' microseconds,
\* started and stopped through the debugfs file 'enabled'.

\* How many pbe_wakeup() calls the model counts.
MaxWakeups == 3
\* What user space writes to ldist_nsec.
PbeLdistWrites == { 5000, 200000, 2000000000 }
\* What user space writes to the enabled file: two booleans and a string that
\* kstrtobool() rejects.
PbeEnableWrites == { "1", "0", "x" }

\* The variables the pbe driver does not touch.
not_pbe_vars == << drv_vars, bpf >>

\* Whether 'thread' points to a task that runs pbe_thread().
pbe_thread_live(p) == p.thread = "task" /\ p.task = "running"

\* kthread_stop(thread): it stops a live thread and waits for it; for an
\* ERR_PTR() value or a task that has left its thread function there is no
\* thread to stop.
pbe_kthread_stop(p) ==
    [p EXCEPT !.bad_stop = @ \/ ~pbe_thread_live(p),
              !.task = IF pbe_thread_live(p) THEN "stopped" ELSE @]

\* pbe_write_file_enable(): 'ret = kstrtobool_from_user(user_buf, count,
\* &enable); if (ret) return ret;'. kstrtobool() stores the value it parsed
\* straight into 'enable'.
pbe_write_file_enable_parse ==
    /\ pbe.loaded
    /\ pbe.pc = "idle"
    /\ \E str \in PbeEnableWrites :
           pbe' = IF str = "x"
                  THEN [pbe EXCEPT !.ret = "EINVAL"]
                  ELSE [pbe EXCEPT !.enable = (str = "1"), !.pc = "parsed",
                                   !.ret = "none"]
    /\ UNCHANGED not_pbe_vars

\* pbe_write_file_enable(): the rest of the function. 'created' is whether
\* kthread_create() succeeds.
pbe_write_file_enable_act ==
    /\ pbe.pc = "parsed"
    /\ \E created \in BOOLEAN :
           pbe' =
             IF pbe.enable
             THEN IF pbe.thread # "NULL"
                  THEN [pbe EXCEPT !.pc = "idle", !.ret = "EBUSY"]
                  ELSE IF ~created
                  THEN [pbe EXCEPT !.pc = "idle", !.thread = "ERR_PTR",
                                   !.ret = "PTR_ERR"]
                  ELSE [pbe EXCEPT !.pc = "idle", !.thread = "task",
                                   !.task = "running", !.ret = "count"]
             ELSE IF pbe.thread = "NULL"
                  THEN [pbe EXCEPT !.pc = "idle", !.ret = "ENODEV"]
                  ELSE [pbe_kthread_stop([pbe EXCEPT !.enable = FALSE]) EXCEPT
                            !.pc = "idle", !.thread = "NULL", !.ret = "count"]
    /\ UNCHANGED not_pbe_vars

\* pbe_thread(): one turn of 'while (!kthread_should_stop() && enable)'. The
\* thread function returns when it finds 'enable' false.
pbe_thread ==
    /\ pbe.task = "running"
    /\ pbe' = IF pbe.enable
              THEN [pbe EXCEPT !.wakeups = IF @ < MaxWakeups THEN @ + 1 ELSE @]
              ELSE [pbe EXCEPT !.task = "exited"]
    /\ UNCHANGED not_pbe_vars

\* pbe_val_set() for the ldist_nsec file.
pbe_val_set ==
    /\ pbe.loaded
    /\ \E nsec \in PbeLdistWrites :
         LET val == nsec \div 1000
         IN  pbe' = IF val < PBE_LDIST_MIN \/ val > PBE_LDIST_MAX
                    THEN [pbe EXCEPT !.ret = "EINVAL"]
                    ELSE [pbe EXCEPT !.ldist = val, !.ret = "0"]
    /\ UNCHANGED not_pbe_vars

\* pbe_exit().
pbe_exit ==
    /\ pbe.loaded
    /\ pbe.pc = "idle"
    /\ pbe' = IF pbe.enable
              THEN [pbe_kthread_stop([pbe EXCEPT !.enable = FALSE]) EXCEPT
                        !.loaded = FALSE]
              ELSE [pbe EXCEPT !.loaded = FALSE]
    /\ UNCHANGED not_pbe_vars

\* The state after pbe_init().
InitPbe == wult_init /\ csinfo = csinfo_zero /\ bpf = bpf_zero /\ pbe = pbe_zero

NextPbe ==
    \/ pbe_write_file_enable_parse
    \/ pbe_write_file_enable_act
    \/ pbe_thread
    \/ pbe_val_set
    \/ pbe_exit

SpecPbe == InitPbe /\ [][NextPbe]_vars

\* ---------------------------------------------------------------- C40
\* C40: in the pbe driver, whenever no write to the enabled file is under way,
\* 'enable' is true if and only if 'thread' points to a live worker thread, and
\* kthread_stop() is never called for something that is no live thread.
C40_EnableIffLiveThread ==
    /\ (pbe.loaded /\ pbe.pc = "idle") => (pbe.enable <=> pbe_thread_live(pbe))
    /\ ~pbe.bad_stop

================================================================
